---- MODULE Spec2Model ----
(***************************************************************************)
(* passlib: the policy dispatcher (context), the scheme handlers and their *)
(* hash-string codecs.                                                     *)
(*                                                                         *)
(* Text is a sequence of one-character strings; raw bytes are a sequence   *)
(* of integers 0..255.  A Python value is a record [t, v]: t is its type   *)
(* ("unicode", "bytes", "NoneType", "int"), v its content.  The result of  *)
(* a call is a record whose field kind is "ret" (field val) or "raise"     *)
(* (field exc).                                                            *)
(***************************************************************************)
EXTENDS Integers, Sequences, FiniteSets, TLC

VARIABLES op, arg, res, env, _backend, warned, passes, thr

\* the backend selection of bcrypt: what the import found (env), the selected
\* backend (_backend), the warnings issued and the probing passes run so
\* far, and each thread's position in set_backend (thr)
bvars == <<env, _backend, warned, passes, thr>>

vars == <<op, arg, res, env, _backend, warned, passes, thr>>

(***************************************************************************)
(* Bounds of the model.                                                    *)
(***************************************************************************)
MaxCtxLen == 2
NumThreads == 2
MaxCalls == 3

(***************************************************************************)
(* Python values and call results.                                         *)
(***************************************************************************)
PyStr(s) == [t |-> "unicode", v |-> s]
PyBytes(s) == [t |-> "bytes", v |-> s]
PyNone == [t |-> "NoneType", v |-> <<>>]
PyInt(n) == [t |-> "int", v |-> <<n>>]

IsString(x) == x.t \in {"unicode", "bytes"}
IsNone(x) == x.t = "NoneType"

\* bool(x) of a Python value
Truthy(x) ==
    CASE x.t = "NoneType" -> FALSE
      [] x.t = "int" -> x.v[1] # 0
      [] OTHER -> Len(x.v) > 0

Ret(v) == [kind |-> "ret", val |-> v]
Raise(e) == [kind |-> "raise", exc |-> e]

(***************************************************************************)
(* Text helpers.                                                           *)
(***************************************************************************)
Rep(c, n) == [i \in 1..n |-> c]

StartsWith(s, p) == Len(s) >= Len(p) /\ SubSeq(s, 1, Len(p)) = p

Drop(s, n) == SubSeq(s, n + 1, Len(s))

Digits == {"0", "1", "2", "3", "4", "5", "6", "7", "8", "9"}
LowerHex == Digits \cup {"a", "b", "c", "d", "e", "f"}
LowerLetters ==
    {"a", "b", "c", "d", "e", "f", "g", "h", "i", "j", "k", "l", "m",
     "n", "o", "p", "q", "r", "s", "t", "u", "v", "w", "x", "y", "z"}
UpperLetters ==
    {"A", "B", "C", "D", "E", "F", "G", "H", "I", "J", "K", "L", "M",
     "N", "O", "P", "Q", "R", "S", "T", "U", "V", "W", "X", "Y", "Z"}
\* the class [A-Za-z0-9./]
H64Chars == Digits \cup LowerLetters \cup UpperLetters \cup {".", "/"}

AllIn(s, set) == \A i \in 1..Len(s) : s[i] \in set

\* Python's "$" at the end of a pattern: the end of the text, or just
\* before a newline that ends the text.
AtEnd(rest) == rest = <<>> \/ rest = <<"\n">>

(***************************************************************************)
(* Python's text and number conversions, as the handlers use them.         *)
(***************************************************************************)
\* the printable ASCII characters, chr(32) .. chr(126); the double quote,
\* the backslash and the backtick are written as names
Ascii ==
    <<" ", "!", "<dquote>", "#", "$", "%", "&", "'", "(", ")", "*", "+", ",",
     "-", ".", "/", "0", "1", "2", "3", "4", "5", "6", "7", "8", "9",
     ":", ";", "<", "=", ">", "?", "@", "A", "B", "C", "D", "E", "F",
     "G", "H", "I", "J", "K", "L", "M", "N", "O", "P", "Q", "R", "S",
     "T", "U", "V", "W", "X", "Y", "Z", "[", "<backslash>", "]", "^", "_", "<backtick>",
     "a", "b", "c", "d", "e", "f", "g", "h", "i", "j", "k", "l", "m",
     "n", "o", "p", "q", "r", "s", "t", "u", "v", "w", "x", "y", "z",
     "{", "|", "}", "~">>

IndexOf(seq, c) == CHOOSE i \in 1..Len(seq) : seq[i] = c
Has(seq, c) == \E i \in 1..Len(seq) : seq[i] = c

Ord(c) == IF c = "\n" THEN 10 ELSE 31 + IndexOf(Ascii, c)
Chr(n) == IF n = 10 THEN "\n" ELSE Ascii[n - 31]

\* str.upper() on ASCII text
UpperChar(c) == IF c \in LowerLetters THEN Chr(Ord(c) - 32) ELSE c
Upper(s) == [i \in 1..Len(s) |-> UpperChar(s[i])]

\* secret.encode("utf-8") and secret.encode("utf-16-le") on ASCII text
Utf8(s) == [i \in 1..Len(s) |-> Ord(s[i])]
Utf16le(s) ==
    [i \in 1..(2 * Len(s)) |-> IF i % 2 = 1 THEN Ord(s[(i + 1) \div 2]) ELSE 0]

HexDigitsLower ==
    <<"0", "1", "2", "3", "4", "5", "6", "7", "8", "9", "a", "b", "c", "d", "e", "f">>

\* the value of a digit in a base, -1 when it is no digit of the base
DigitValue(c, base) ==
    LET lc == IF c \in {"A", "B", "C", "D", "E", "F"} THEN Chr(Ord(c) + 32) ELSE c
    IN  IF Has(HexDigitsLower, lc) /\ IndexOf(HexDigitsLower, lc) <= base
        THEN IndexOf(HexDigitsLower, lc) - 1
        ELSE -1

(***************************************************************************)
(* Python's integers are unbounded.  An integer is held as a sign and two  *)
(* limbs, value = hi * 65536 + lo, which is exact for every magnitude      *)
(* below 2^43: enough for the round counts around 2^32 the handlers bound. *)
(***************************************************************************)
Big(n) == [neg |-> FALSE, hi |-> n \div 65536, lo |-> n % 65536]

BigNegate(a) == IF a.hi = 0 /\ a.lo = 0 THEN a ELSE [a EXCEPT !.neg = ~a.neg]

\* a * m + d for a >= 0 and small m, d >= 0
BigMulAdd(a, m, d) ==
    LET l == a.lo * m + d
    IN  [neg |-> FALSE, hi |-> a.hi * m + (l \div 65536), lo |-> l % 65536]

\* the quotient of a >= 0 by a small d > 0, and the remainder
BigDiv(a, d) ==
    LET l == (a.hi % d) * 65536 + a.lo
    IN  [neg |-> FALSE, hi |-> a.hi \div d, lo |-> l \div d]
BigMod(a, d) == ((a.hi % d) * 65536 + a.lo) % d

\* a < b
BigLess(a, b) ==
    LET MagLess(x, y) == x.hi < y.hi \/ (x.hi = y.hi /\ x.lo < y.lo)
    IN
    CASE a.neg /\ ~b.neg -> TRUE
      [] ~a.neg /\ b.neg -> FALSE
      [] a.neg /\ b.neg -> MagLess(b, a)
      [] OTHER -> MagLess(a, b)

RECURSIVE DigitsValue(_, _)
DigitsValue(s, base) ==
    IF s = <<>> THEN Big(0)
    ELSE BigMulAdd(DigitsValue(SubSeq(s, 1, Len(s) - 1), base), base,
                   DigitValue(s[Len(s)], base))

Whitespace == {" ", "\n", "\t"}

RECURSIVE LStrip(_)
LStrip(s) ==
    IF s # <<>> /\ s[1] \in Whitespace THEN LStrip(Tail(s)) ELSE s

RECURSIVE RStrip(_)
RStrip(s) ==
    IF s # <<>> /\ s[Len(s)] \in Whitespace
    THEN RStrip(SubSeq(s, 1, Len(s) - 1)) ELSE s

\* int(text, base) for base 10 and 16: surrounding whitespace is ignored, a
\* sign is allowed, and base 16 allows the prefix 0x or 0X.
PyInt_parse(text, base) ==
    LET s == RStrip(LStrip(text))
        neg == s # <<>> /\ s[1] = "-"
        body == IF s # <<>> /\ s[1] \in {"+", "-"} THEN Tail(s) ELSE s
        digs == IF /\ base = 16
                   /\ Len(body) >= 2
                   /\ body[1] = "0"
                   /\ body[2] \in {"x", "X"}
                THEN Drop(body, 2) ELSE body
    IN  IF digs = <<>> \/ \E i \in 1..Len(digs) : DigitValue(digs[i], base) < 0
        THEN Raise("ValueError")
        ELSE Ret(IF neg THEN BigNegate(DigitsValue(digs, base))
                 ELSE DigitsValue(digs, base))

\* the digits of a >= 0 in a base, lower case
RECURSIVE NatToText(_, _)
NatToText(a, base) ==
    IF a.hi = 0 /\ a.lo < base THEN <<HexDigitsLower[a.lo + 1]>>
    ELSE NatToText(BigDiv(a, base), base)
         \o <<HexDigitsLower[BigMod(a, base) + 1]>>

SignedText(a, base) ==
    IF a.neg THEN <<"-">> \o NatToText(BigNegate(a), base)
    ELSE NatToText(a, base)

\* str(n) and "%d" % n
IntToStr(a) == SignedText(a, 10)

\* "%x" % n
IntToHex(a) == SignedText(a, 16)

\* "%02d" % n
IntToStr02(a) ==
    IF Len(IntToStr(a)) < 2 THEN <<"0">> \o IntToStr(a) ELSE IntToStr(a)

(***************************************************************************)
(* binascii.hexlify / unhexlify                                            *)
(***************************************************************************)
Hexlify(bytes) ==
    [i \in 1..(2 * Len(bytes)) |->
        IF i % 2 = 1 THEN HexDigitsLower[(bytes[(i + 1) \div 2] \div 16) + 1]
        ELSE HexDigitsLower[(bytes[i \div 2] % 16) + 1]]

\* unhexlify raises TypeError on an odd length or a non-hex character
Unhexlify(text) ==
    IF Len(text) % 2 = 1 \/ \E i \in 1..Len(text) : DigitValue(text[i], 16) < 0
    THEN Raise("TypeError")
    ELSE Ret([i \in 1..(Len(text) \div 2) |->
                 16 * DigitValue(text[2 * i - 1], 16) + DigitValue(text[2 * i], 16)])

(***************************************************************************)
(* base64.b64encode / b64decode, and the adapted base64 of the pbkdf2      *)
(* hashes (no padding).                                                    *)
(***************************************************************************)
B64Alphabet ==
    <<"A", "B", "C", "D", "E", "F", "G", "H", "I", "J", "K", "L", "M",
     "N", "O", "P", "Q", "R", "S", "T", "U", "V", "W", "X", "Y", "Z",
     "a", "b", "c", "d", "e", "f", "g", "h", "i", "j", "k", "l", "m",
     "n", "o", "p", "q", "r", "s", "t", "u", "v", "w", "x", "y", "z",
     "0", "1", "2", "3", "4", "5", "6", "7", "8", "9", "+", "/">>

AB64Alphabet ==
    <<".", "/", "0", "1", "2", "3", "4", "5", "6", "7", "8", "9", "A",
     "B", "C", "D", "E", "F", "G", "H", "I", "J", "K", "L", "M", "N",
     "O", "P", "Q", "R", "S", "T", "U", "V", "W", "X", "Y", "Z", "a",
     "b", "c", "d", "e", "f", "g", "h", "i", "j", "k", "l", "m", "n",
     "o", "p", "q", "r", "s", "t", "u", "v", "w", "x", "y", "z">>

\* the 6-bit groups of a byte string, the last group padded with zero bits
SixBits(bytes) ==
    LET n == Len(bytes)
        b(i) == IF i <= n THEN bytes[i] ELSE 0
        groups == (8 * n + 5) \div 6
        grp(k) ==
            LET j == 3 * ((k - 1) \div 4) + 1
                v == 65536 * b(j) + 256 * b(j + 1) + b(j + 2)
            IN  CASE (k - 1) % 4 = 0 -> v \div 262144
                  [] (k - 1) % 4 = 1 -> (v \div 4096) % 64
                  [] (k - 1) % 4 = 2 -> (v \div 64) % 64
                  [] OTHER -> v % 64
    IN  [k \in 1..groups |-> grp(k)]

\* the bytes a sequence of 6-bit groups holds (left-over bits are dropped)
FromSixBits(g) ==
    LET n == (6 * Len(g)) \div 8
        s(k) == IF k <= Len(g) THEN g[k] ELSE 0
        byte(i) ==
            LET q == 4 * ((i - 1) \div 3) + 1
                v == 262144 * s(q) + 4096 * s(q + 1) + 64 * s(q + 2) + s(q + 3)
            IN  CASE (i - 1) % 3 = 0 -> v \div 65536
                  [] (i - 1) % 3 = 1 -> (v \div 256) % 256
                  [] OTHER -> v % 256
    IN  [i \in 1..n |-> byte(i)]

B64Encode(bytes) ==
    LET g == SixBits(bytes)
        pad == (4 - (Len(g) % 4)) % 4
    IN  [k \in 1..Len(g) |-> B64Alphabet[g[k] + 1]] \o Rep("=", pad)

RECURSIVE StripPad(_)
StripPad(s) ==
    IF s # <<>> /\ s[Len(s)] = "=" THEN StripPad(SubSeq(s, 1, Len(s) - 1)) ELSE s

\* b64decode raises TypeError on incorrect padding
B64Decode(text) ==
    LET body == StripPad(text)
    IN  IF \/ Len(text) % 4 # 0
           \/ Len(text) - Len(body) > 2
           \/ \E i \in 1..Len(body) : ~Has(B64Alphabet, body[i])
        THEN Raise("TypeError")
        ELSE Ret(FromSixBits([k \in 1..Len(body) |->
                                 IndexOf(B64Alphabet, body[k]) - 1]))

adapted_b64_encode(bytes) ==
    LET g == SixBits(bytes)
    IN  [k \in 1..Len(g) |-> AB64Alphabet[g[k] + 1]]

adapted_b64_decode(text) ==
    IF Len(text) % 4 = 1 \/ \E i \in 1..Len(text) : ~Has(AB64Alphabet, text[i])
    THEN Raise("ValueError")
    ELSE Ret(FromSixBits([k \in 1..Len(text) |->
                             IndexOf(AB64Alphabet, text[k]) - 1]))

(***************************************************************************)
(* bcrypt.identify                                                         *)
(***************************************************************************)
bcrypt_identify(hash) ==
    IF ~Truthy(hash) THEN Ret(FALSE)
    ELSE IF ~IsString(hash) THEN Raise("AttributeError")
    ELSE Ret(StartsWith(hash.v, <<"$", "2", "$">>)
             \/ StartsWith(hash.v, <<"$", "2", "a", "$">>))

(***************************************************************************)
(* postgres_plaintext.identify and postgres_md5.identify                   *)
(***************************************************************************)
postgres_plaintext_identify(hash) == Ret(Truthy(hash))

\* _pat = ^md5[0-9a-f]{32}$
postgres_md5_pat(s) ==
    /\ Len(s) >= 35
    /\ SubSeq(s, 1, 3) = <<"m", "d", "5">>
    /\ AllIn(SubSeq(s, 4, 35), LowerHex)
    /\ AtEnd(Drop(s, 35))

postgres_md5_identify(hash) ==
    IF ~Truthy(hash) THEN Ret(FALSE)
    ELSE IF ~IsString(hash) THEN Raise("TypeError")
    ELSE Ret(postgres_md5_pat(hash.v))

(***************************************************************************)
(* mssql: the common identify of mssql2000 and mssql2005                   *)
(***************************************************************************)
UIDENT == <<"0", "x", "0", "1", "0", "0">>
BIDENT == UIDENT

\* Variant: only unicode text is looked at.
_ident_mssql_unicode_only(hash, csize, bsize) ==
    IF hash.t = "unicode"
    THEN Ret(Len(hash.v) = csize /\ StartsWith(hash.v, UIDENT))
    ELSE Ret(FALSE)

_ident_mssql(hash, csize, bsize) ==
    IF hash.t = "unicode"
    THEN Ret(Len(hash.v) = csize /\ StartsWith(hash.v, UIDENT))
    ELSE IF hash.t = "bytes"
    THEN Ret(Len(hash.v) = csize /\ StartsWith(hash.v, BIDENT))
    ELSE Raise("ExpectedStringError")

mssql2000_identify(hash) == _ident_mssql(hash, 94, 46)
mssql2005_identify(hash) == _ident_mssql(hash, 54, 26)

(***************************************************************************)
(* Hash records.  A record holds ident, rounds, salt and checksum; the     *)
(* checksum is optional ([some |-> FALSE] is Python's None).  corrected    *)
(* tells that relaxed validation replaced an out-of-bounds setting.        *)
(***************************************************************************)
NoChecksum == [some |-> FALSE, v |-> <<>>]
Checksum(v) == [some |-> TRUE, v |-> v]

\* "chk or None" and bool(chk): an empty checksum counts as absent
ChecksumTruthy(c) == c.some /\ Len(c.v) > 0

\* 2**32 - 1
MaxRounds32 == [neg |-> FALSE, hi |-> 65535, lo |-> 65535]

\* the class attributes of the handlers: the bounds of rounds and salt, the
\* characters of a text salt ({} for raw bytes), the checksum size (0: none
\* is declared)
bcrypt ==
    [name |-> "bcrypt", has_rounds |-> TRUE,
     min_rounds |-> Big(4), max_rounds |-> Big(31), default_rounds |-> Big(12),
     min_salt_chars |-> 22, max_salt_chars |-> 22, salt_charset |-> H64Chars,
     checksum_chars |-> 31]

\* Variant: zero rounds are within the bounds.
pbkdf2_sha1_from_zero ==
    [name |-> "pbkdf2_sha1", has_rounds |-> TRUE,
     min_rounds |-> Big(0), max_rounds |-> MaxRounds32,
     default_rounds |-> Big(6400),
     min_salt_chars |-> 0, max_salt_chars |-> 1024, salt_charset |-> {},
     checksum_chars |-> 20]

pbkdf2_sha1 ==
    [name |-> "pbkdf2_sha1", has_rounds |-> TRUE,
     min_rounds |-> Big(1), max_rounds |-> MaxRounds32,
     default_rounds |-> Big(6400),
     min_salt_chars |-> 0, max_salt_chars |-> 1024, salt_charset |-> {},
     checksum_chars |-> 20]

dlitz_pbkdf2_sha1 ==
    [name |-> "dlitz_pbkdf2_sha1", has_rounds |-> TRUE,
     min_rounds |-> Big(0), max_rounds |-> MaxRounds32,
     default_rounds |-> Big(10000),
     min_salt_chars |-> 0, max_salt_chars |-> 1024, salt_charset |-> H64Chars,
     checksum_chars |-> 0]

atlassian_pbkdf2_sha1 ==
    [name |-> "atlassian_pbkdf2_sha1", has_rounds |-> FALSE,
     min_rounds |-> Big(0), max_rounds |-> Big(0), default_rounds |-> Big(0),
     min_salt_chars |-> 16, max_salt_chars |-> 16, salt_charset |-> {},
     checksum_chars |-> 32]

grub_pbkdf2_sha512 ==
    [name |-> "grub_pbkdf2_sha512", has_rounds |-> TRUE,
     min_rounds |-> Big(1), max_rounds |-> MaxRounds32,
     default_rounds |-> Big(10000),
     min_salt_chars |-> 0, max_salt_chars |-> 1024, salt_charset |-> {},
     checksum_chars |-> 0]

mssql2000 ==
    [name |-> "mssql2000", has_rounds |-> FALSE,
     min_rounds |-> Big(0), max_rounds |-> Big(0), default_rounds |-> Big(0),
     min_salt_chars |-> 4, max_salt_chars |-> 4, salt_charset |-> {},
     checksum_chars |-> 40]

mssql2005 ==
    [name |-> "mssql2005", has_rounds |-> FALSE,
     min_rounds |-> Big(0), max_rounds |-> Big(0), default_rounds |-> Big(0),
     min_salt_chars |-> 4, max_salt_chars |-> 4, salt_charset |-> {},
     checksum_chars |-> 20]

(***************************************************************************)
(* The handler constructor cls(rounds=, salt=, checksum=, strict=): the    *)
(* settings are validated against the class attributes.  Strict: a setting *)
(* out of bounds is an error.  Relaxed: rounds out of bounds and a salt    *)
(* that is too long are replaced by a corrected value, with a warning.     *)
(***************************************************************************)
norm_rounds(cls, rounds, strict) ==
    IF ~cls.has_rounds THEN Ret(rounds)
    ELSE IF BigLess(rounds, cls.min_rounds)
    THEN (IF strict THEN Raise("InvalidSettingError") ELSE Ret(cls.min_rounds))
    ELSE IF BigLess(cls.max_rounds, rounds)
    THEN (IF strict THEN Raise("InvalidSettingError") ELSE Ret(cls.max_rounds))
    ELSE Ret(rounds)

norm_salt(cls, salt, strict) ==
    IF cls.salt_charset # {} /\ ~AllIn(salt, cls.salt_charset)
    THEN Raise("InvalidSettingError")
    ELSE IF Len(salt) < cls.min_salt_chars
    THEN Raise("InvalidSettingError")
    ELSE IF Len(salt) > cls.max_salt_chars
    THEN (IF strict THEN Raise("InvalidSettingError")
          ELSE Ret(SubSeq(salt, 1, cls.max_salt_chars)))
    ELSE Ret(salt)

norm_checksum(cls, checksum, strict) ==
    IF ~checksum.some THEN Ret(checksum)
    ELSE IF cls.checksum_chars # 0 /\ Len(checksum.v) # cls.checksum_chars
    THEN Raise("ValueError")
    ELSE Ret(checksum)

NewRecord(cls, ident, rounds, salt, checksum, strict) ==
    LET r == norm_rounds(cls, rounds, strict)
        sl == norm_salt(cls, salt, strict)
        c == norm_checksum(cls, checksum, strict)
    IN  IF c.kind = "raise" THEN c
        ELSE IF sl.kind = "raise" THEN sl
        ELSE IF r.kind = "raise" THEN r
        ELSE Ret([handler |-> cls.name, ident |-> ident, rounds |-> r.val,
                  salt |-> sl.val, checksum |-> c.val, strict |-> strict,
                  corrected |-> (r.val # rounds \/ sl.val # salt)])

(***************************************************************************)
(* parse_mc3: the three-part modular crypt format,                         *)
(* prefix rounds sep salt [sep checksum].                                  *)
(***************************************************************************)
RECURSIVE Split(_, _)
Split(s, sep) ==
    IF \A i \in 1..Len(s) : s[i] # sep THEN <<s>>
    ELSE LET k == CHOOSE i \in 1..Len(s) :
                      s[i] = sep /\ \A j \in 1..(i - 1) : s[j] # sep
         IN  <<SubSeq(s, 1, k - 1)>> \o Split(Drop(s, k), sep)

parse_mc3(hash, prefix, sep) ==
    IF ~StartsWith(hash, prefix) THEN Raise("ValueError")
    ELSE LET parts == Split(Drop(hash, Len(prefix)), sep)
         IN  IF Len(parts) = 3
             THEN Ret([rounds |-> parts[1], salt |-> parts[2],
                       chk |-> IF parts[3] = <<>> THEN NoChecksum
                               ELSE Checksum(parts[3])])
             ELSE IF Len(parts) = 2
             THEN Ret([rounds |-> parts[1], salt |-> parts[2],
                       chk |-> NoChecksum])
             ELSE Raise("ValueError")

(***************************************************************************)
(* bcrypt: from_string and to_string                                       *)
(***************************************************************************)
\* _pat: ^\$(2a?)\$(\d{2})\$([A-Za-z0-9./]{22})([A-Za-z0-9./]{31})?$
\* the groups of the match, or matched = FALSE
bcrypt_pat(s) ==
    LET ident == IF StartsWith(s, <<"$", "2", "a", "$">>) THEN <<"2", "a">>
                 ELSE <<"2">>
        rest == Drop(s, Len(ident) + 2)
        head == /\ (StartsWith(s, <<"$", "2", "a", "$">>)
                    \/ StartsWith(s, <<"$", "2", "$">>))
                /\ Len(rest) >= 25
                /\ AllIn(SubSeq(rest, 1, 2), Digits)
                /\ rest[3] = "$"
                /\ AllIn(SubSeq(rest, 4, 25), H64Chars)
        tail == Drop(rest, 25)
        withchk == /\ Len(tail) >= 31
                   /\ AllIn(SubSeq(tail, 1, 31), H64Chars)
                   /\ AtEnd(Drop(tail, 31))
    IN  IF head /\ withchk
        THEN [matched |-> TRUE, ident |-> ident, rounds |-> SubSeq(rest, 1, 2),
              salt |-> SubSeq(rest, 4, 25),
              chk |-> Checksum(SubSeq(tail, 1, 31))]
        ELSE IF head /\ AtEnd(tail)
        THEN [matched |-> TRUE, ident |-> ident, rounds |-> SubSeq(rest, 1, 2),
              salt |-> SubSeq(rest, 4, 25), chk |-> NoChecksum]
        ELSE [matched |-> FALSE, ident |-> <<>>, rounds |-> <<>>,
              salt |-> <<>>, chk |-> NoChecksum]

bcrypt_norm_ident(ident, strict) ==
    IF ident = <<>>
    THEN (IF strict THEN Raise("ValueError") ELSE Ret(<<"2", "a">>))
    ELSE IF ident \notin {<<"2">>, <<"2", "a">>} THEN Raise("ValueError")
    ELSE Ret(ident)

\* Variant: the record is always built relaxed.
bcrypt_from_string_relaxed(hash) ==
    IF hash = <<>> THEN Raise("ValueError")
    ELSE LET m == bcrypt_pat(hash)
         IN  IF ~m.matched THEN Raise("ValueError")
             ELSE NewRecord(bcrypt, m.ident, PyInt_parse(m.rounds, 10).val,
                            m.salt, m.chk, FALSE)

bcrypt_from_string(hash) ==
    IF hash = <<>> THEN Raise("ValueError")
    ELSE LET m == bcrypt_pat(hash)
         IN  IF ~m.matched THEN Raise("ValueError")
             ELSE LET id == bcrypt_norm_ident(m.ident, ChecksumTruthy(m.chk))
                  IN  IF id.kind = "raise" THEN id
                      ELSE NewRecord(bcrypt, id.val,
                                     PyInt_parse(m.rounds, 10).val,
                                     m.salt, m.chk, ChecksumTruthy(m.chk))

\* Variant: the rounds are written without zero padding.
bcrypt_to_string_unpadded(self) ==
    <<"$">> \o self.ident \o <<"$">> \o IntToStr(self.rounds) \o <<"$">>
    \o self.salt \o (IF ChecksumTruthy(self.checksum) THEN self.checksum.v
                     ELSE <<>>)

bcrypt_to_string(self) ==
    <<"$">> \o self.ident \o <<"$">> \o IntToStr02(self.rounds) \o <<"$">>
    \o self.salt \o (IF ChecksumTruthy(self.checksum) THEN self.checksum.v
                     ELSE <<>>)

(***************************************************************************)
(* Pbkdf2DigestHandler (pbkdf2_sha1): from_string and to_string            *)
(***************************************************************************)
pbkdf2_sha1_ident == <<"$", "p", "b", "k", "d", "f", "2", "-", "s", "h", "a", "1", "$">>

Pbkdf2DigestHandler_from_string(cls, ident, hash) ==
    IF hash = <<>> THEN Raise("ValueError")
    ELSE LET p == parse_mc3(hash, ident, "$")
         IN  IF p.kind = "raise" THEN p
             ELSE LET int_rounds == PyInt_parse(p.val.rounds, 10)
                  IN  IF int_rounds.kind = "raise" THEN int_rounds
                      ELSE IF p.val.rounds # IntToStr(int_rounds.val)
                      THEN Raise("ValueError")
                      ELSE LET raw_salt == adapted_b64_decode(p.val.salt)
                               raw_chk ==
                                   IF p.val.chk.some
                                   THEN adapted_b64_decode(p.val.chk.v)
                                   ELSE Ret(<<>>)
                           IN  IF raw_salt.kind = "raise" THEN raw_salt
                               ELSE IF raw_chk.kind = "raise" THEN raw_chk
                               ELSE NewRecord(
                                        cls, ident, int_rounds.val,
                                        raw_salt.val,
                                        IF p.val.chk.some
                                        THEN Checksum(raw_chk.val)
                                        ELSE NoChecksum,
                                        p.val.chk.some /\ Len(raw_chk.val) > 0)

Pbkdf2DigestHandler_to_string(self, withchk) ==
    LET salt == adapted_b64_encode(self.salt)
    IN  IF withchk /\ ChecksumTruthy(self.checksum)
        THEN self.ident \o IntToStr(self.rounds) \o <<"$">> \o salt
             \o <<"$">> \o adapted_b64_encode(self.checksum.v)
        ELSE self.ident \o IntToStr(self.rounds) \o <<"$">> \o salt

(***************************************************************************)
(* dlitz_pbkdf2_sha1: from_string and to_string                            *)
(***************************************************************************)
dlitz_ident == <<"$", "p", "5", "k", "2", "$">>

dlitz_pbkdf2_sha1_from_string(hash) ==
    IF hash = <<>> THEN Raise("ValueError")
    ELSE LET p == parse_mc3(hash, dlitz_ident, "$")
         IN  IF p.kind = "raise" THEN p
             ELSE IF StartsWith(p.val.rounds, <<"0">>) THEN Raise("ValueError")
             ELSE LET r == IF p.val.rounds # <<>>
                           THEN PyInt_parse(p.val.rounds, 16)
                           ELSE Ret(Big(400))
                  IN  IF r.kind = "raise" THEN r
                      ELSE NewRecord(dlitz_pbkdf2_sha1, dlitz_ident, r.val,
                                     p.val.salt, p.val.chk,
                                     ChecksumTruthy(p.val.chk))

dlitz_pbkdf2_sha1_to_string(self, withchk) ==
    LET out == IF self.rounds = Big(400)
               THEN dlitz_ident \o <<"$">> \o self.salt
               ELSE dlitz_ident \o IntToHex(self.rounds) \o <<"$">> \o self.salt
    IN  IF withchk /\ ChecksumTruthy(self.checksum)
        THEN out \o <<"$">> \o self.checksum.v
        ELSE out

(***************************************************************************)
(* atlassian_pbkdf2_sha1: from_string and to_string                        *)
(***************************************************************************)
atlassian_ident == <<"{", "P", "K", "C", "S", "5", "S", "2", "}">>

\* "\x00" * 32
_stub_checksum == Rep(0, 32)

atlassian_pbkdf2_sha1_from_string(hash) ==
    IF hash = <<>> THEN Raise("ValueError")
    ELSE IF ~StartsWith(hash, atlassian_ident) THEN Raise("ValueError")
    ELSE LET data == B64Decode(Drop(hash, Len(atlassian_ident)))
         IN  IF data.kind = "raise" THEN data
             ELSE NewRecord(atlassian_pbkdf2_sha1, atlassian_ident, Big(0),
                            SubSeq(data.val, 1, IF Len(data.val) < 16
                                                THEN Len(data.val) ELSE 16),
                            Checksum(Drop(data.val, 16)), TRUE)

atlassian_pbkdf2_sha1_to_string(self) ==
    LET data == self.salt \o (IF ChecksumTruthy(self.checksum)
                              THEN self.checksum.v ELSE _stub_checksum)
    IN  atlassian_ident \o B64Encode(data)

(***************************************************************************)
(* grub_pbkdf2_sha512: from_string and to_string                           *)
(***************************************************************************)
grub_ident == <<"g", "r", "u", "b", ".", "p", "b", "k", "d", "f", "2", ".", "s", "h", "a", "5", "1", "2", ".">>

grub_pbkdf2_sha512_from_string(hash) ==
    IF hash = <<>> THEN Raise("ValueError")
    ELSE LET p == parse_mc3(hash, grub_ident, ".")
         IN  IF p.kind = "raise" THEN p
             ELSE LET int_rounds == PyInt_parse(p.val.rounds, 10)
                  IN  IF int_rounds.kind = "raise" THEN int_rounds
                      ELSE IF p.val.rounds # IntToStr(int_rounds.val)
                      THEN Raise("ValueError")
                      ELSE LET raw_salt == Unhexlify(p.val.salt)
                               raw_chk ==
                                   IF p.val.chk.some
                                   THEN Unhexlify(p.val.chk.v)
                                   ELSE Ret(<<>>)
                           IN  IF raw_salt.kind = "raise" THEN raw_salt
                               ELSE IF raw_chk.kind = "raise" THEN raw_chk
                               ELSE NewRecord(
                                        grub_pbkdf2_sha512, grub_ident,
                                        int_rounds.val, raw_salt.val,
                                        IF p.val.chk.some
                                        THEN Checksum(raw_chk.val)
                                        ELSE NoChecksum,
                                        p.val.chk.some /\ Len(raw_chk.val) > 0)

grub_pbkdf2_sha512_to_string(self, withchk) ==
    LET salt == Upper(Hexlify(self.salt))
    IN  IF withchk /\ ChecksumTruthy(self.checksum)
        THEN grub_ident \o IntToStr(self.rounds) \o <<".">> \o salt
             \o <<".">> \o Upper(Hexlify(self.checksum.v))
        ELSE grub_ident \o IntToStr(self.rounds) \o <<".">> \o salt

(***************************************************************************)
(* The cryptographic primitives are outside the library, which uses them   *)
(* as pure functions.  A digest of n bytes is modelled as a tag, the       *)
(* input, an end mark and zero padding, cut to n bytes: deterministic, and *)
(* free of collisions on the inputs of the model, which are shorter than   *)
(* n - 2 bytes.                                                            *)
(***************************************************************************)
Digest(tag, data, n) ==
    LET full == <<tag>> \o data \o <<128>>
    IN  [i \in 1..n |-> IF i <= Len(full) THEN full[i] ELSE 0]

sha1(data) == Digest(1, data, 20)
md5(data) == Digest(2, data, 16)
pbkdf2(secret, salt, rounds, keylen, prf) ==
    Digest(3, secret \o <<255>> \o salt \o <<rounds.lo % 256>>, keylen)

\* consteq(left, right): equality of the two values
consteq(left, right) == left = right

(***************************************************************************)
(* mssql2000 and mssql2005.  py3 tells the interpreter: unhexlify raises   *)
(* TypeError on Python 2 and binascii.Error on Python 3.                   *)
(***************************************************************************)
_raw_mssql(secret, salt) == sha1(Utf16le(secret) \o salt)

_parse_mssql(hash, csize, bsize, py3) ==
    IF ~IsString(hash) THEN Raise("ExpectedStringError")
    ELSE IF Len(hash.v) = csize /\ StartsWith(hash.v, UIDENT)
    THEN LET data == Unhexlify(Drop(hash.v, 6))
         IN  IF data.kind = "ret" THEN data
             ELSE IF py3 THEN Raise("binascii.Error")
             ELSE Raise("InvalidHashError")
    ELSE Raise("InvalidHashError")

mssql_from_string(cls, hash, csize, bsize, py3) ==
    LET data == _parse_mssql(hash, csize, bsize, py3)
    IN  IF data.kind = "raise" THEN data
        ELSE NewRecord(cls, UIDENT, Big(0), SubSeq(data.val, 1, 4),
                       Checksum(Drop(data.val, 4)), TRUE)

mssql2000_from_string(hash, py3) == mssql_from_string(mssql2000, hash, 94, 46, py3)
mssql2005_from_string(hash, py3) == mssql_from_string(mssql2005, hash, 54, 26, py3)

\* Variant: the hex digits are left as hexlify returns them.
mssql_to_string_lower(self) ==
    IF ~self.checksum.some THEN Raise("TypeError")
    ELSE Ret(UIDENT \o Hexlify(self.salt \o self.checksum.v))

\* "0x0100" + hexlify(salt + checksum).upper(); salt + None is a TypeError
mssql_to_string(self) ==
    IF ~self.checksum.some THEN Raise("TypeError")
    ELSE Ret(UIDENT \o Upper(Hexlify(self.salt \o self.checksum.v)))

mssql2000__calc_checksum(self, secret) ==
    _raw_mssql(secret, self.salt) \o _raw_mssql(Upper(secret), self.salt)

mssql2005__calc_checksum(self, secret) == _raw_mssql(secret, self.salt)

\* Variant: the stored checksum is compared with the mixed-case digest.
mssql2000_verify_mixed_case(secret, hash, py3) ==
    LET self == mssql2000_from_string(hash, py3)
    IN  IF self.kind = "raise" THEN self
        ELSE Ret(consteq(_raw_mssql(Upper(secret), self.val.salt),
                         SubSeq(self.val.checksum.v, 1, 20)))

mssql2000_verify(secret, hash, py3) ==
    LET self == mssql2000_from_string(hash, py3)
    IN  IF self.kind = "raise" THEN self
        ELSE IF ~self.val.checksum.some THEN Raise("MissingDigestError")
        ELSE Ret(consteq(_raw_mssql(Upper(secret), self.val.salt),
                         Drop(self.val.checksum.v, 20)))

(***************************************************************************)
(* postgres_md5 and postgres_plaintext.  secret and user are text; config  *)
(* and hash are Python values (None when there is none).                   *)
(***************************************************************************)
postgres_md5_genconfig == Ret(PyNone)

\* Variant: the digest also covers the secret of the genhash call before.
postgres_md5_encrypt_chained(secret, user) ==
    IF ~Truthy(user) THEN Raise("ValueError")
    ELSE Ret(PyStr(<<"m", "d", "5">> \o
             Hexlify(md5(Utf8(secret) \o Utf8(user.v) \o
                         (IF op = "genhash" THEN Utf8(arg.secret) ELSE <<>>)))))

postgres_md5_encrypt(secret, user) ==
    IF ~Truthy(user) THEN Raise("ValueError")
    ELSE Ret(PyStr(<<"m", "d", "5">> \o Hexlify(md5(Utf8(secret) \o Utf8(user.v)))))

\* Variant: the config is not looked at.
postgres_md5_genhash_any(secret, config, user) ==
    postgres_md5_encrypt(secret, user)

postgres_md5_genhash(secret, config, user) ==
    IF Truthy(config) /\ postgres_md5_identify(config).kind = "raise"
    THEN postgres_md5_identify(config)
    ELSE IF Truthy(config) /\ ~postgres_md5_identify(config).val
    THEN Raise("ValueError")
    ELSE postgres_md5_encrypt(secret, user)

postgres_md5_verify(secret, hash, user) ==
    IF ~Truthy(hash) THEN Raise("ValueError")
    ELSE LET h == postgres_md5_genhash(secret, hash, user)
         IN  IF h.kind = "raise" THEN h
             ELSE Ret(hash.t = h.val.t /\ hash.v = h.val.v)

postgres_plaintext_genconfig == Ret(PyNone)
postgres_plaintext_encrypt(secret, config, user) == Ret(PyStr(secret))
postgres_plaintext_verify(secret, hash, user) ==
    Ret(IsString(hash) /\ secret = hash.v)

(***************************************************************************)
(* The operations every handler inherits: genconfig builds a checksum-less *)
(* record from the settings and formats it; encrypt builds the record,     *)
(* computes its checksum and formats it; verify parses the hash, fails     *)
(* with MissingDigestError when it holds no checksum, and compares the     *)
(* recomputed checksum with the stored one.                                *)
(***************************************************************************)
atlassian_pbkdf2_sha1_calc_checksum(self, secret) ==
    pbkdf2(Utf8(secret), self.salt, Big(10000), 32, "hmac-sha1")

atlassian_pbkdf2_sha1_genconfig(salt) ==
    LET self == NewRecord(atlassian_pbkdf2_sha1, atlassian_ident, Big(0), salt,
                          NoChecksum, FALSE)
    IN  IF self.kind = "raise" THEN self
        ELSE Ret(atlassian_pbkdf2_sha1_to_string(self.val))

atlassian_pbkdf2_sha1_encrypt(secret, salt) ==
    LET self == NewRecord(atlassian_pbkdf2_sha1, atlassian_ident, Big(0), salt,
                          NoChecksum, FALSE)
    IN  IF self.kind = "raise" THEN self
        ELSE Ret(atlassian_pbkdf2_sha1_to_string(
                 [self.val EXCEPT !.checksum =
                      Checksum(atlassian_pbkdf2_sha1_calc_checksum(self.val, secret))]))

atlassian_pbkdf2_sha1_verify(secret, hash) ==
    LET self == atlassian_pbkdf2_sha1_from_string(hash)
    IN  IF self.kind = "raise" THEN self
        ELSE IF ~self.val.checksum.some THEN Raise("MissingDigestError")
        ELSE Ret(consteq(atlassian_pbkdf2_sha1_calc_checksum(self.val, secret),
                         self.val.checksum.v))

mssql2000_encrypt(secret, salt) ==
    LET self == NewRecord(mssql2000, UIDENT, Big(0), salt, NoChecksum, TRUE)
    IN  IF self.kind = "raise" THEN self
        ELSE mssql_to_string(
                 [self.val EXCEPT !.checksum =
                      Checksum(mssql2000__calc_checksum(self.val, secret))])

(***************************************************************************)
(* The schemes the standard contexts name.  Their handlers are recognised  *)
(* by the prefixes the identify() documentation lists; unix-crypt by the   *)
(* shape of the known des-crypt hashes.                                    *)
(***************************************************************************)
unix_crypt_identify(hash) ==
    IF ~Truthy(hash) THEN Ret(FALSE)
    ELSE IF ~IsString(hash) THEN Raise("TypeError")
    ELSE Ret(Len(hash.v) = 13 /\ AllIn(hash.v, H64Chars))

PrefixIdentify(hash, prefix) ==
    IF ~Truthy(hash) THEN Ret(FALSE)
    ELSE IF ~IsString(hash) THEN Raise("AttributeError")
    ELSE Ret(StartsWith(hash.v, prefix))

\* handler.identify(hash) of the handler registered under a name
HandlerIdentify(name, hash) ==
    CASE name = "unix-crypt" -> unix_crypt_identify(hash)
      [] name = "md5-crypt" -> PrefixIdentify(hash, <<"$", "1", "$">>)
      [] name = "bcrypt" -> bcrypt_identify(hash)
      [] name = "sha256-crypt" -> PrefixIdentify(hash, <<"$", "5", "$">>)
      [] name = "sha512-crypt" -> PrefixIdentify(hash, <<"$", "6", "$">>)
      [] name = "postgres_md5" -> postgres_md5_identify(hash)
      [] name = "postgres_plaintext" -> postgres_plaintext_identify(hash)
      [] name = "mssql2000" -> mssql2000_identify(hash)
      [] name = "mssql2005" -> mssql2005_identify(hash)

(***************************************************************************)
(* The standard contexts.                                                  *)
(***************************************************************************)
default_context ==
    <<"unix-crypt", "md5-crypt", "bcrypt", "sha256-crypt", "sha512-crypt">>
linux_context == <<"unix-crypt", "md5-crypt", "sha256-crypt", "sha512-crypt">>
bsd_context == <<"unix-crypt", "md5-crypt", "bcrypt">>

\* the name that stands for Python's None where a scheme name is returned
NoScheme == "<None>"

InCtx(ctx, name) == \E i \in 1..Len(ctx) : ctx[i] = name

(***************************************************************************)
(* Context.identify: each handler's identify, in registration order; the   *)
(* first match is returned.                                                *)
(***************************************************************************)
RECURSIVE CtxIdentifyFrom(_, _, _)
\* Variant: the last-registered match wins.
CtxIdentifyLastWins(ctx, hash, i) ==
    LET hits == {j \in 1..Len(ctx) : HandlerIdentify(ctx[j], hash).val}
    IN  IF hits = {} THEN Ret(NoScheme)
        ELSE Ret(ctx[CHOOSE j \in hits : \A k \in hits : k <= j])

CtxIdentifyFrom(ctx, hash, i) ==
    IF i > Len(ctx) THEN Ret(NoScheme)
    ELSE LET r == HandlerIdentify(ctx[i], hash)
         IN  IF r.kind = "raise" THEN r
             ELSE IF r.val THEN Ret(ctx[i])
             ELSE CtxIdentifyFrom(ctx, hash, i + 1)

CtxIdentify(ctx, hash) == CtxIdentifyFrom(ctx, hash, 1)

(***************************************************************************)
(* The default scheme of a context: default_context "uses SHA-512 as       *)
(* default", and encrypt() documents that sha512-crypt is used when        *)
(* neither alg nor hash is given: the last entry of the list.              *)
(***************************************************************************)
\* Variant: the first entry is the default.
DefaultSchemeFirst(ctx) == ctx[1]

DefaultScheme(ctx) == ctx[Len(ctx)]

(***************************************************************************)
(* Context.encrypt and Context.verify.  Both are dispatchers: the result   *)
(* is the call they delegate to (handler and arguments), or an error.      *)
(***************************************************************************)
Delegate(handler, method, secret, hash, keep_salt) ==
    Ret([handler |-> handler, method |-> method, secret |-> secret,
         hash |-> hash, keep_salt |-> keep_salt])

\* Variant: a prior hash takes priority over alg.
CtxEncryptHashFirst(ctx, secret, hash, alg, keep_salt) ==
    IF ~IsNone(hash)
    THEN LET r == CtxIdentify(ctx, hash)
         IN  IF r.kind = "raise" THEN r
             ELSE IF r.val = NoScheme THEN Raise("UnsupportedSchemeError")
             ELSE Delegate(r.val, "encrypt", secret, hash, keep_salt)
    ELSE IF alg # NoScheme
    THEN IF InCtx(ctx, alg)
         THEN Delegate(alg, "encrypt", secret, hash, keep_salt)
         ELSE Raise("UnsupportedSchemeError")
    ELSE Delegate(DefaultScheme(ctx), "encrypt", secret, hash, keep_salt)

CtxEncrypt(ctx, secret, hash, alg, keep_salt) ==
    IF alg # NoScheme
    THEN IF InCtx(ctx, alg)
         THEN Delegate(alg, "encrypt", secret, hash, keep_salt)
         ELSE Raise("UnsupportedSchemeError")
    ELSE IF ~IsNone(hash)
    THEN LET r == CtxIdentify(ctx, hash)
         IN  IF r.kind = "raise" THEN r
             ELSE IF r.val = NoScheme THEN Raise("UnsupportedSchemeError")
             ELSE Delegate(r.val, "encrypt", secret, hash, keep_salt)
    ELSE Delegate(DefaultScheme(ctx), "encrypt", secret, hash, keep_salt)

\* Variant: an unidentified hash falls back to the default handler.
CtxVerifyDefaulting(ctx, secret, hash, alg) ==
    IF alg # NoScheme
    THEN IF InCtx(ctx, alg)
         THEN Delegate(alg, "verify", secret, hash, FALSE)
         ELSE Raise("UnsupportedSchemeError")
    ELSE LET r == CtxIdentify(ctx, hash)
         IN  IF r.kind = "raise" THEN r
             ELSE IF r.val = NoScheme
             THEN Delegate(DefaultScheme(ctx), "verify", secret, hash, FALSE)
             ELSE Delegate(r.val, "verify", secret, hash, FALSE)

CtxVerify(ctx, secret, hash, alg) ==
    IF alg # NoScheme
    THEN IF InCtx(ctx, alg)
         THEN Delegate(alg, "verify", secret, hash, FALSE)
         ELSE Raise("UnsupportedSchemeError")
    ELSE LET r == CtxIdentify(ctx, hash)
         IN  IF r.kind = "raise" THEN r
             ELSE IF r.val = NoScheme THEN Raise("UnsupportedSchemeError")
             ELSE Delegate(r.val, "verify", secret, hash, FALSE)

(***************************************************************************)
(* Inputs of the context operations.                                       *)
(***************************************************************************)
T_empty == <<>>
T_postgres == <<"m", "d", "5">> \o Rep("0", 30) \o <<"a", "f">>

CtxTexts ==
    {T_empty,
     <<"n", "o", "t", "-", "a", "-", "h", "a", "s", "h">>,
     <<"O", "g", "A", "w", "T", "x", "2", "l", "6", "N", "A", "D", "I">>,
     <<"$", "1", "$", "a", "b", "c", "$", "x", "y", "z">>,
     <<"$", "2", "a", "$", "1", "2", "$">> \o Rep(".", 22),
     <<"$", "2", "$", "0", "4", "$">> \o Rep("/", 22) \o Rep("a", 31),
     <<"$", "5", "$", "a", "b", "c", "$", "x", "y", "z">>,
     <<"$", "6", "$", "a", "b", "c", "$", "x", "y", "z">>,
     UIDENT \o Rep("A", 8) \o Rep("0", 40),
     UIDENT \o Rep("0", 8) \o Rep("f", 80),
     T_postgres}

Contexts ==
    {default_context, linux_context, bsd_context}
    \cup {c \in UNION {[1..n -> {"bcrypt", "postgres_md5", "postgres_plaintext",
                                 "mssql2005"}] : n \in 1..MaxCtxLen} :
              \A i, j \in DOMAIN c : c[i] = c[j] => i = j}

CtxSecrets == {<<"t", "e", "s", "t">>, <<>>}

CtxAlgs(ctx) == {ctx[i] : i \in 1..Len(ctx)} \cup {NoScheme, "no-such-scheme"}

(***************************************************************************)
(* The state: the call in progress (op, arg) and its result (res).  The    *)
(* library keeps no state between calls: a caller makes a call from idle,  *)
(* and Return takes the result and leaves the library idle again.          *)
(***************************************************************************)
Init ==
    /\ op = "idle"
    /\ arg = <<>>
    /\ res = Ret(NoScheme)
    /\ env = [loaded |-> FALSE, pybcrypt_hashpw |-> FALSE, os_crypt |-> "none"]
    /\ _backend = NoScheme
    /\ warned = 0
    /\ passes = 0
    /\ thr = [t \in 1..NumThreads |->
                 [pc |-> "idle", name |-> NoScheme, result |-> Ret(NoScheme),
                  calls |-> 0, first |-> TRUE]]

Return ==
    /\ UNCHANGED bvars
    /\ op # "idle"
    /\ op' = "idle"
    /\ arg' = <<>>
    /\ res' = Ret(NoScheme)

ContextIdentify ==
    /\ UNCHANGED bvars
    /\ op = "idle"
    /\ \E ctx \in Contexts, text \in CtxTexts :
        /\ op' = "Context.identify"
        /\ arg' = [ctx |-> ctx, hash |-> PyStr(text)]
        /\ res' = CtxIdentify(ctx, PyStr(text))

ContextEncrypt ==
    /\ UNCHANGED bvars
    /\ op = "idle"
    /\ \E ctx \in Contexts, secret \in CtxSecrets,
       hash \in {PyNone} \cup {PyStr(t) : t \in CtxTexts \ {T_empty}},
       keep_salt \in BOOLEAN :
        \E alg \in CtxAlgs(ctx) :
            /\ op' = "Context.encrypt"
            /\ arg' = [ctx |-> ctx, secret |-> secret, hash |-> hash,
                       alg |-> alg, keep_salt |-> keep_salt]
            /\ res' = CtxEncrypt(ctx, secret, hash, alg, keep_salt)

ContextVerify ==
    /\ UNCHANGED bvars
    /\ op = "idle"
    /\ \E ctx \in Contexts, secret \in CtxSecrets,
       hash \in {PyStr(t) : t \in CtxTexts} :
        \E alg \in CtxAlgs(ctx) :
            /\ op' = "Context.verify"
            /\ arg' = [ctx |-> ctx, secret |-> secret, hash |-> hash,
                       alg |-> alg]
            /\ res' = CtxVerify(ctx, secret, hash, alg)

(***************************************************************************)
(* Handler.identify on any Python value.                                   *)
(***************************************************************************)
IdentifyValues ==
    {PyNone, PyInt(0), PyInt(5)}
    \cup {PyStr(t) : t \in CtxTexts}
    \cup {PyBytes(t) : t \in CtxTexts}
    \cup {PyStr(<<"$", "2", "a", "$">>), PyStr(<<"$", "2", "$", "?">>),
          PyStr(T_postgres \o <<"\n">>), PyStr(UIDENT \o Rep("g", 48)),
          PyStr(UIDENT \o Rep("z", 88))}

HandlerIdentifyCall ==
    /\ UNCHANGED bvars
    /\ op = "idle"
    /\ \E name \in {"bcrypt", "postgres_md5", "postgres_plaintext",
                    "mssql2000", "mssql2005"},
          hash \in IdentifyValues :
        /\ op' = "Handler.identify"
        /\ arg' = [handler |-> name, hash |-> hash]
        /\ res' = HandlerIdentify(name, hash)

(***************************************************************************)
(* from_string on hash texts.  A text is built from a rounds field, a salt *)
(* field and a checksum field (empty: the text holds no checksum).         *)
(***************************************************************************)
Codecs ==
    {"bcrypt", "pbkdf2_sha1", "dlitz_pbkdf2_sha1", "grub_pbkdf2_sha512"}

Class(handler) ==
    CASE handler = "bcrypt" -> bcrypt
      [] handler = "pbkdf2_sha1" -> pbkdf2_sha1
      [] handler = "dlitz_pbkdf2_sha1" -> dlitz_pbkdf2_sha1
      [] handler = "atlassian_pbkdf2_sha1" -> atlassian_pbkdf2_sha1
      [] handler = "grub_pbkdf2_sha512" -> grub_pbkdf2_sha512
      [] handler = "mssql2000" -> mssql2000
      [] handler = "mssql2005" -> mssql2005

HandlerFromString(handler, hash) ==
    CASE handler = "bcrypt" -> bcrypt_from_string(hash)
      [] handler = "pbkdf2_sha1" ->
            Pbkdf2DigestHandler_from_string(pbkdf2_sha1, pbkdf2_sha1_ident, hash)
      [] handler = "dlitz_pbkdf2_sha1" -> dlitz_pbkdf2_sha1_from_string(hash)
      [] handler = "atlassian_pbkdf2_sha1" ->
            atlassian_pbkdf2_sha1_from_string(hash)
      [] handler = "grub_pbkdf2_sha512" -> grub_pbkdf2_sha512_from_string(hash)
      [] handler = "mssql2000" -> mssql2000_from_string(PyStr(hash), FALSE)
      [] handler = "mssql2005" -> mssql2005_from_string(PyStr(hash), FALSE)

HandlerToString(handler, self) ==
    CASE handler = "bcrypt" -> Ret(bcrypt_to_string(self))
      [] handler = "pbkdf2_sha1" -> Ret(Pbkdf2DigestHandler_to_string(self, TRUE))
      [] handler = "dlitz_pbkdf2_sha1" ->
            Ret(dlitz_pbkdf2_sha1_to_string(self, TRUE))
      [] handler = "atlassian_pbkdf2_sha1" ->
            Ret(atlassian_pbkdf2_sha1_to_string(self))
      [] handler = "grub_pbkdf2_sha512" ->
            Ret(grub_pbkdf2_sha512_to_string(self, TRUE))
      [] handler = "mssql2000" -> mssql_to_string(self)
      [] handler = "mssql2005" -> mssql_to_string(self)

RoundsTexts(handler) ==
    CASE handler = "bcrypt" ->
            {<<"0", "0">>, <<"0", "3">>, <<"0", "4">>, <<"1", "2">>,
             <<"3", "1">>, <<"3", "2">>, <<"9", "9">>, <<"4">>, <<"0", "1", "2">>}
      [] handler = "dlitz_pbkdf2_sha1" ->
            {<<>>, <<"0">>, <<"0", "c">>, <<"c">>, <<"C">>, <<"1", "9", "0">>,
             <<"+", "c">>, <<" ", "c">>, <<"0", "x", "c">>, <<"g">>,
             <<"f", "f", "f", "f", "f", "f", "f", "f">>,
             <<"1", "0", "0", "0", "0", "0", "0", "0", "0">>}
      [] OTHER ->
            {<<>>, <<"0">>, <<"1">>, <<"0", "1">>, <<"+", "1">>, <<" ", "1">>,
             <<"-", "5">>, <<"6", "4", "0", "0">>, <<"x">>,
             <<"4", "2", "9", "4", "9", "6", "7", "2", "9", "5">>,
             <<"4", "2", "9", "4", "9", "6", "7", "2", "9", "6">>}

\* 1368 characters of adapted base64 hold 1026 bytes, and 2050 hex digits
\* hold 1025 bytes: more than max_salt_chars
SaltTexts(handler) ==
    CASE handler = "bcrypt" -> {Rep(".", 22), Rep("/", 21)}
      [] handler = "pbkdf2_sha1" -> {<<>>, <<"a", "U">>, Rep("A", 1368)}
      [] handler = "dlitz_pbkdf2_sha1" -> {<<>>, <<"a", "b">>, Rep("s", 1025)}
      [] handler = "grub_pbkdf2_sha512" ->
            {<<>>, <<"A", "B">>, <<"A", "g">>, Rep("0", 2050)}

ChkTexts(handler) ==
    CASE handler = "bcrypt" -> {<<>>, Rep("c", 31)}
      [] handler = "pbkdf2_sha1" -> {<<>>, adapted_b64_encode(Rep(9, 20))}
      [] handler = "dlitz_pbkdf2_sha1" -> {<<>>, Rep("c", 32)}
      [] handler = "grub_pbkdf2_sha512" -> {<<>>, Rep("C", 128)}

MakeHash(handler, rounds, salt, chk) ==
    CASE handler = "bcrypt" ->
            <<"$", "2", "a", "$">> \o rounds \o <<"$">> \o salt \o chk
      [] handler = "pbkdf2_sha1" ->
            pbkdf2_sha1_ident \o rounds \o <<"$">> \o salt
            \o (IF chk = <<>> THEN <<>> ELSE <<"$">> \o chk)
      [] handler = "dlitz_pbkdf2_sha1" ->
            dlitz_ident \o rounds \o <<"$">> \o salt
            \o (IF chk = <<>> THEN <<>> ELSE <<"$">> \o chk)
      [] handler = "grub_pbkdf2_sha512" ->
            grub_ident \o rounds \o <<".">> \o salt
            \o (IF chk = <<>> THEN <<>> ELSE <<".">> \o chk)

FromStringCall ==
    /\ UNCHANGED bvars
    /\ op = "idle"
    /\ \E handler \in Codecs :
        \E rounds \in RoundsTexts(handler), salt \in SaltTexts(handler),
           chk \in ChkTexts(handler) :
            /\ op' = "from_string"
            /\ arg' = [handler |-> handler, rounds |-> rounds, salt |-> salt,
                       chk |-> chk]
            /\ res' = HandlerFromString(handler, MakeHash(handler, rounds, salt, chk))

(***************************************************************************)
(* to_string of a record the handler can produce, then from_string of the  *)
(* text.                                                                   *)
(***************************************************************************)
RoundsOf(handler) ==
    CASE handler = "bcrypt" -> {Big(4), Big(9), Big(12), Big(31)}
      [] handler = "pbkdf2_sha1" -> {Big(1), Big(6400), MaxRounds32}
      [] handler = "dlitz_pbkdf2_sha1" ->
            {Big(0), Big(1), Big(12), Big(400), Big(10000), MaxRounds32}
      [] handler = "grub_pbkdf2_sha512" -> {Big(1), Big(10000), MaxRounds32}
      [] OTHER -> {Big(0)}

SaltsOf(handler) ==
    CASE handler = "bcrypt" -> {Rep(".", 22), Rep("z", 22)}
      [] handler = "dlitz_pbkdf2_sha1" -> {<<>>, <<"a", "b">>, Rep("/", 16)}
      [] handler = "atlassian_pbkdf2_sha1" -> {Rep(0, 16), Rep(255, 16)}
      [] handler \in {"mssql2000", "mssql2005"} ->
            {<<0, 0, 0, 0>>, <<1, 2, 171, 255>>}
      [] OTHER -> {<<>>, <<7>>, <<1, 2>>, Rep(255, 16)}

ChecksumsOf(handler) ==
    CASE handler = "bcrypt" -> {NoChecksum, Checksum(Rep("c", 31))}
      [] handler = "pbkdf2_sha1" -> {NoChecksum, Checksum(Rep(9, 20))}
      [] handler = "dlitz_pbkdf2_sha1" -> {NoChecksum, Checksum(Rep("c", 32))}
      [] handler = "atlassian_pbkdf2_sha1" -> {NoChecksum, Checksum(Rep(9, 32))}
      [] handler = "grub_pbkdf2_sha512" -> {NoChecksum, Checksum(Rep(171, 64))}
      [] handler = "mssql2000" -> {Checksum(Rep(171, 40))}
      [] handler = "mssql2005" -> {Checksum(Rep(171, 20))}

IdentsOf(handler) ==
    CASE handler = "bcrypt" -> {<<"2">>, <<"2", "a">>}
      [] handler = "pbkdf2_sha1" -> {pbkdf2_sha1_ident}
      [] handler = "dlitz_pbkdf2_sha1" -> {dlitz_ident}
      [] handler = "atlassian_pbkdf2_sha1" -> {atlassian_ident}
      [] handler = "grub_pbkdf2_sha512" -> {grub_ident}
      [] OTHER -> {UIDENT}

\* the records the constructor accepts: a full hash is built strict, a
\* config record (no checksum) relaxed
Records(handler) ==
    {r.val : r \in
        {x \in {NewRecord(Class(handler), id, rounds, salt, chk, chk.some) :
                    id \in IdentsOf(handler), rounds \in RoundsOf(handler),
                    salt \in SaltsOf(handler), chk \in ChecksumsOf(handler)} :
            x.kind = "ret"}}

ToStringCall ==
    /\ UNCHANGED bvars
    /\ op = "idle"
    /\ \E handler \in Codecs \cup {"atlassian_pbkdf2_sha1", "mssql2000",
                                 "mssql2005"} :
        \E self \in Records(handler) :
            /\ op' = "to_string"
            /\ arg' = [handler |-> handler, self |-> self]
            /\ res' = HandlerToString(handler, self)

FromStringBack ==
    /\ UNCHANGED bvars
    /\ op = "to_string"
    /\ res.kind = "ret"
    /\ op' = "from_string(to_string)"
    /\ arg' = [handler |-> arg.handler, self |-> arg.self, hash |-> res.val]
    /\ res' = HandlerFromString(arg.handler, res.val)

(***************************************************************************)
(* encrypt and genconfig, then verify against what they returned.          *)
(***************************************************************************)
MaxSecretLen == 2

Secrets ==
    UNION {[1..n -> {"p", "W"}] : n \in 0..MaxSecretLen}

Encrypt(handler, secret, salt, user) ==
    CASE handler = "mssql2000" ->
            LET h == mssql2000_encrypt(secret, salt)
            IN  IF h.kind = "raise" THEN h ELSE Ret(PyStr(h.val))
      [] handler = "atlassian_pbkdf2_sha1" ->
            LET h == atlassian_pbkdf2_sha1_encrypt(secret, salt)
            IN  IF h.kind = "raise" THEN h ELSE Ret(PyStr(h.val))
      [] handler = "postgres_md5" -> postgres_md5_encrypt(secret, user)
      [] handler = "postgres_plaintext" ->
            postgres_plaintext_encrypt(secret, PyNone, user)

\* Variant: the salt of a prior hash is copied whenever one is supplied.
HandlerEncryptCopying(d, fresh) ==
    IF IsNone(d.hash) THEN Encrypt(d.handler, d.secret, fresh, PyNone)
    ELSE LET prior == HandlerFromString(d.handler, d.hash.v)
         IN  IF prior.kind = "raise" THEN prior
             ELSE Encrypt(d.handler, d.secret, prior.val.salt, PyNone)

\* handler.encrypt(secret, hash, keep_salt) as the context delegates it: the
\* salt is the prior hash's when keep_salt is set and a hash is supplied,
\* else the one freshly generated.
HandlerEncryptPrior(d, fresh) ==
    IF d.keep_salt /\ ~IsNone(d.hash)
    THEN LET prior == HandlerFromString(d.handler, d.hash.v)
         IN  IF prior.kind = "raise" THEN prior
             ELSE Encrypt(d.handler, d.secret, prior.val.salt, PyNone)
    ELSE Encrypt(d.handler, d.secret, fresh, PyNone)

Genconfig(handler, salt) ==
    CASE handler = "atlassian_pbkdf2_sha1" ->
            LET c == atlassian_pbkdf2_sha1_genconfig(salt)
            IN  IF c.kind = "raise" THEN c ELSE Ret(PyStr(c.val))
      [] handler = "postgres_md5" -> postgres_md5_genconfig
      [] handler = "postgres_plaintext" -> postgres_plaintext_genconfig

Verify(handler, secret, hash, user, py3) ==
    CASE handler = "mssql2000" -> mssql2000_verify(secret, hash, py3)
      [] handler = "atlassian_pbkdf2_sha1" ->
            atlassian_pbkdf2_sha1_verify(secret, hash.v)
      [] handler = "postgres_md5" -> postgres_md5_verify(secret, hash, user)
      [] handler = "postgres_plaintext" ->
            postgres_plaintext_verify(secret, hash, user)

\* The comparison verify(secret, hash, user) ends with: the operation used,
\* its operands, and the number of positions it examines: consteq all of
\* them, == up to the first difference (operands of unequal length: none).
VerifyComparison(handler, secret, hash, user) ==
    LET cmp(by, left, right) ==
            LET diff == {i \in 1..Len(left) : left[i] # right[i]}
            IN  [by |-> by, left |-> left, right |-> right,
                 examined |->
                     IF Len(left) # Len(right) THEN 0
                     ELSE IF by = "consteq" \/ diff = {} THEN Len(left)
                     ELSE CHOOSE i \in diff : \A j \in diff : i <= j]
    IN  CASE handler = "mssql2000" ->
                LET self == mssql2000_from_string(hash, FALSE).val
                IN  cmp("consteq", _raw_mssql(Upper(secret), self.salt),
                        Drop(self.checksum.v, 20))
          [] handler = "atlassian_pbkdf2_sha1" ->
                LET self == atlassian_pbkdf2_sha1_from_string(hash.v).val
                IN  cmp("consteq",
                        atlassian_pbkdf2_sha1_calc_checksum(self, secret),
                        self.checksum.v)
          [] handler = "postgres_md5" ->
                cmp("==", hash.v, postgres_md5_genhash(secret, hash, user).val.v)
          [] handler = "postgres_plaintext" -> cmp("==", secret, hash.v)

\* the settings of a call: a salt for the salted handlers (drawn by the
\* caller's random source), a user for the postgres handlers
SettingsOf(handler) ==
    IF handler \in {"postgres_md5", "postgres_plaintext"}
    THEN {[salt |-> <<>>, user |-> u] :
             u \in {PyNone, PyStr(<<>>), PyStr(<<"u">>), PyStr(<<"p", "g">>)}}
    ELSE {[salt |-> sl, user |-> PyNone] : sl \in SaltsOf(handler)}

EncryptCall ==
    /\ UNCHANGED bvars
    /\ op = "idle"
    /\ \E handler \in {"mssql2000", "atlassian_pbkdf2_sha1", "postgres_md5",
                       "postgres_plaintext"},
          secret \in Secrets :
        \E st \in SettingsOf(handler) :
            /\ op' = "encrypt"
            /\ arg' = [handler |-> handler, secret |-> secret,
                       salt |-> st.salt, user |-> st.user]
            /\ res' = Encrypt(handler, secret, st.salt, st.user)

GenconfigCall ==
    /\ UNCHANGED bvars
    /\ op = "idle"
    /\ \E handler \in {"atlassian_pbkdf2_sha1", "postgres_md5",
                       "postgres_plaintext"} :
        \E st \in SettingsOf(handler) :
            /\ op' = "genconfig"
            /\ arg' = [handler |-> handler, secret |-> <<>>,
                       salt |-> st.salt, user |-> st.user]
            /\ res' = Genconfig(handler, st.salt)

\* verify(probe, hash) of the text the previous call returned
VerifyCall ==
    /\ UNCHANGED bvars
    /\ op \in {"encrypt", "genconfig"}
    /\ res.kind = "ret"
    /\ \E probe \in {arg.secret, arg.secret \o <<"x">>, Upper(arg.secret),
                     <<"o">>},
          py3 \in BOOLEAN :
        /\ op' = IF op = "encrypt" THEN "verify(encrypt)" ELSE "verify(genconfig)"
        /\ arg' = [handler |-> arg.handler, secret |-> arg.secret,
                   user |-> arg.user, hash |-> res.val, probe |-> probe,
                   py3 |-> py3]
        /\ res' = Verify(arg.handler, probe, res.val, arg.user, py3)

\* encrypt(secret, hash, keep_salt) through a context holding the scheme, on
\* the hash the previous encrypt returned; kwds is the keep_salt keyword as
\* given (absent: the default).
EncryptAgain ==
    /\ UNCHANGED bvars
    /\ op = "encrypt"
    /\ res.kind = "ret"
    /\ arg.handler \in {"mssql2000", "atlassian_pbkdf2_sha1"}
    /\ \E secret \in {arg.secret, <<"o">>}, fresh \in SaltsOf(arg.handler),
          kwds \in {<<>>, <<TRUE>>, <<FALSE>>}, hash \in {res.val, PyNone} :
        LET keep_salt == kwds # <<>> /\ kwds[1]
            d == CtxEncrypt(<<arg.handler>>, secret, hash, arg.handler,
                            keep_salt)
        IN  /\ op' = "encrypt(prior)"
            /\ arg' = [handler |-> arg.handler, secret |-> arg.secret,
                       salt |-> arg.salt, again |-> secret, fresh |-> fresh,
                       kwds |-> kwds, hash |-> hash, prior |-> res.val]
            /\ res' = IF d.kind = "raise" THEN d
                      ELSE HandlerEncryptPrior(d.val, fresh)

\* mssql2005.from_string(hash).to_string(), of a text of the hash format in
\* any case and of malformed ones, or of the text the previous call returned.
Mssql2005Normalise ==
    /\ UNCHANGED bvars
    /\ \/ /\ op = "idle"
          /\ \E salt \in {<<"0", "1", "0", "2", "a", "b", "f", "f">>,
                           <<"0", "1", "0", "2", "A", "B", "F", "F">>,
                           <<"0", "1", "0", "2", "a", "B", "f", "F">>,
                           <<"c", "D", "e", "9", "0", "0", "E", "d">>},
                chk \in {Rep("a", 40), Rep("A", 40), Rep("9", 40),
                         Rep("f", 20) \o Rep("F", 20), Rep("g", 40),
                         Rep("a", 39), Rep("a", 41)},
                prefix \in {UIDENT, <<"0", "X", "0", "1", "0", "0">>},
                bytes \in BOOLEAN, py3 \in BOOLEAN :
                arg' = [hash |-> IF bytes THEN PyBytes(prefix \o salt \o chk)
                                 ELSE PyStr(prefix \o salt \o chk),
                        py3 |-> py3, again |-> FALSE]
       \/ /\ op = "normalise"
          /\ res.kind = "ret"
          /\ ~arg.again
          /\ arg' = [hash |-> PyStr(res.val), py3 |-> arg.py3, again |-> TRUE]
    /\ op' = "normalise"
    /\ res' = LET self == mssql2005_from_string(arg'.hash, arg'.py3)
              IN  IF self.kind = "raise" THEN self
                  ELSE mssql_to_string(self.val)

(***************************************************************************)
(* genhash(secret, config, user), from idle or after earlier genhash calls: *)
(* arg.first keeps the first call of the sequence and what it returned.     *)
(* The pbkdf2 handlers inherit genhash: parse the config, compute the       *)
(* checksum, format the record.                                             *)
(***************************************************************************)
GenhashCall ==
    /\ UNCHANGED bvars
    /\ op \in {"idle", "genhash"}
    /\ op = "genhash" => arg.n < MaxCalls
    /\ \E handler \in IF op = "idle"
                       THEN {"postgres_md5", "postgres_plaintext",
                             "atlassian_pbkdf2_sha1"}
                       ELSE {arg.handler},
          secret \in IF op = "idle" THEN Secrets
                      ELSE {arg.first.call.secret, <<"W">>} :
        \E user \in
               IF handler = "atlassian_pbkdf2_sha1" THEN {PyNone}
               ELSE IF op = "idle"
               THEN {PyNone, PyStr(<<>>), PyStr(<<"u">>), PyStr(<<"p", "g">>)}
               ELSE {arg.first.call.user, PyStr(<<"u">>)},
           config \in
               IF op = "genhash" THEN {arg.first.call.config, PyStr(<<"x">>)}
               ELSE IF handler = "atlassian_pbkdf2_sha1"
               THEN {PyStr(<<"x">>)} \cup
                    {PyStr(atlassian_pbkdf2_sha1_encrypt(<<"o">>, sl).val) :
                         sl \in SaltsOf(handler)}
               ELSE {PyNone, PyStr(<<>>), PyStr(<<"x">>),
                     PyStr(<<"m", "d", "5">> \o Rep("0", 32)),
                     PyStr(<<"m", "d", "5">> \o Rep("a", 32)),
                     PyStr(<<"m", "d", "5">> \o Rep("A", 32))} :
            LET self == atlassian_pbkdf2_sha1_from_string(config.v)
                result ==
                    CASE handler = "postgres_md5" ->
                            postgres_md5_genhash(secret, config, user)
                      [] handler = "postgres_plaintext" -> Ret(PyStr(secret))
                      [] handler = "atlassian_pbkdf2_sha1" ->
                            IF self.kind = "raise" THEN self
                            ELSE Ret(PyStr(atlassian_pbkdf2_sha1_to_string(
                                     [self.val EXCEPT !.checksum = Checksum(
                                          atlassian_pbkdf2_sha1_calc_checksum(
                                              self.val, secret))])))
            IN  /\ op' = "genhash"
                /\ arg' = [handler |-> handler, secret |-> secret,
                           config |-> config, user |-> user,
                           n |-> IF op = "idle" THEN 1 ELSE arg.n + 1,
                           first |-> IF op = "idle"
                                     THEN [call |-> [secret |-> secret,
                                                     config |-> config,
                                                     user |-> user],
                                           res |-> result]
                                     ELSE arg.first]
                /\ res' = result

\* postgres_md5.verify(secret, hash, user)
PostgresVerifyCall ==
    /\ UNCHANGED bvars
    /\ op = "idle"
    /\ \E secret \in Secrets,
          user \in {PyNone, PyStr(<<>>), PyStr(<<"u">>), PyStr(<<"p", "g">>)} :
        \E hash \in {PyNone, PyStr(<<"x">>),
                     PyStr(<<"m", "d", "5">> \o Rep("0", 32)),
                     postgres_md5_encrypt(secret, PyStr(<<"u">>)).val} :
            /\ op' = "verify"
            /\ arg' = [handler |-> "postgres_md5", secret |-> secret,
                       hash |-> hash, user |-> user]
            /\ res' = postgres_md5_verify(secret, hash, user)

\* mssql2000.verify(probe, hash) of a hash built from a salt and the two
\* digests of a secret, as stored or with one of the digests replaced.
Mssql2000VerifyCall ==
    /\ UNCHANGED bvars
    /\ op = "idle"
    /\ \E secret \in Secrets, salt \in SaltsOf("mssql2000"),
          probe \in Secrets \cup {Upper(x) : x \in Secrets},
          stored \in {"both", "lower only", "upper only"} :
        LET chk == (IF stored = "upper only" THEN Rep(0, 20)
                    ELSE _raw_mssql(secret, salt))
                   \o (IF stored = "lower only" THEN Rep(0, 20)
                       ELSE _raw_mssql(Upper(secret), salt))
            hash == UIDENT \o Upper(Hexlify(salt \o chk))
        IN  /\ op' = "mssql2000.verify"
            /\ arg' = [handler |-> "mssql2000", secret |-> secret,
                       salt |-> salt, chk |-> chk, hash |-> hash,
                       probe |-> probe]
            /\ res' = mssql2000_verify(probe, PyStr(hash), FALSE)

\* bcrypt.genconfig(salt, rounds, ident): rounds and ident are the keyword as
\* given (<<>>: left out), the salt is the one generated or given.
BcryptGenconfigCall ==
    /\ UNCHANGED bvars
    /\ op = "idle"
    /\ \E salt \in SaltsOf("bcrypt"),
          rounds \in {<<>>} \cup {<<r>> : r \in RoundsOf("bcrypt")
                                              \cup {Big(3), Big(32)}},
          ident \in {<<>>, <<"2">>, <<"2", "a">>} :
        LET id == bcrypt_norm_ident(ident, FALSE)
            self == NewRecord(bcrypt, id.val,
                              IF rounds = <<>> THEN bcrypt.default_rounds
                              ELSE rounds[1],
                              salt, NoChecksum, FALSE)
        IN  /\ op' = "bcrypt.genconfig"
            /\ arg' = [handler |-> "bcrypt", salt |-> salt, rounds |-> rounds,
                       ident |-> ident]
            /\ res' = IF id.kind = "raise" THEN id
                      ELSE IF self.kind = "raise" THEN self
                      ELSE Ret(bcrypt_to_string(self.val))

(***************************************************************************)
(* The constructor, called with settings: rounds and salts below, within   *)
(* and above the bounds of the handler, in strict and in relaxed mode.     *)
(***************************************************************************)
ConstructCall ==
    /\ UNCHANGED bvars
    /\ op = "idle"
    /\ \E handler \in Codecs \cup {"atlassian_pbkdf2_sha1", "mssql2005"},
          strict \in BOOLEAN :
        \E rounds \in RoundsOf(handler)
                       \cup {BigNegate(Big(1)), Big(0), Big(3), Big(32),
                             [neg |-> FALSE, hi |-> 65536, lo |-> 0]},
           salt \in SaltsOf(handler)
                     \cup (IF handler \in {"bcrypt", "dlitz_pbkdf2_sha1"}
                           THEN {Rep(".", 21), Rep(".", 23), Rep(".", 1025)}
                           ELSE {Rep(0, 3), Rep(0, 17), Rep(0, 1024),
                                 Rep(0, 1025)}) :
            /\ op' = "construct"
            /\ arg' = [handler |-> handler, rounds |-> rounds, salt |-> salt,
                       strict |-> strict]
            /\ res' = NewRecord(Class(handler),
                                CHOOSE id \in IdentsOf(handler) : TRUE,
                                rounds, salt, NoChecksum, strict)

Next ==
    \/ ContextIdentify
    \/ ContextEncrypt
    \/ ContextVerify
    \/ HandlerIdentifyCall
    \/ FromStringCall
    \/ ToStringCall
    \/ FromStringBack
    \/ EncryptCall
    \/ GenconfigCall
    \/ VerifyCall
    \/ EncryptAgain
    \/ Mssql2005Normalise
    \/ GenhashCall
    \/ PostgresVerifyCall
    \/ BcryptGenconfigCall
    \/ Mssql2000VerifyCall
    \/ ConstructCall
    \/ Return

Spec == Init /\ [][Next]_vars

(***************************************************************************)
(* The backends of bcrypt.  Importing the module finds py-bcrypt or not,   *)
(* and an os_crypt that is missing, knows "$2a$" alone, or knows both      *)
(* bcrypt idents.  set_backend(name) runs in a thread: the selector of     *)
(* BackendExtHash, then the check that warns about the builtin backend.    *)
(***************************************************************************)
\* Variant: the portable implementation is preferred.
backends_builtin_first == <<"builtin", "pybcrypt", "os_crypt">>

backends == <<"pybcrypt", "os_crypt", "builtin">>

\* Variant: os_crypt is taken as present without the known-answer test.
has_backend_untested(e, name) ==
    CASE name = "pybcrypt" -> e.pybcrypt_hashpw
      [] name = "os_crypt" -> e.os_crypt # "none"
      [] name = "builtin" -> TRUE
      [] OTHER -> FALSE

\* _has_backend_pybcrypt, _has_backend_os_crypt, _has_backend_builtin
has_backend(e, name) ==
    CASE name = "pybcrypt" -> e.pybcrypt_hashpw
      [] name = "os_crypt" -> e.os_crypt = "bcrypt"
      [] name = "builtin" -> TRUE
      [] OTHER -> FALSE

\* BackendExtHash.set_backend(name): without a name, the selection made
\* before, or else the first backend in order whose probe succeeds, which is
\* then kept; with a name, that backend or BackendUnavailableError.
BackendExtHash_set_backend(e, cache, name) ==
    LET ok == {i \in 1..Len(backends) : has_backend(e, backends[i])}
        first == CHOOSE i \in ok : \A j \in ok : i <= j
    IN  IF name = NoScheme
        THEN IF cache # NoScheme
             THEN [result |-> Ret(cache), cache |-> cache, probed |-> FALSE]
             ELSE IF ok = {}
             THEN [result |-> Raise("BackendUnavailableError"),
                   cache |-> cache, probed |-> TRUE]
             ELSE [result |-> Ret(backends[first]), cache |-> backends[first],
                   probed |-> TRUE]
        ELSE IF has_backend(e, name)
        THEN [result |-> Ret(name), cache |-> name, probed |-> FALSE]
        ELSE [result |-> Raise("BackendUnavailableError"), cache |-> cache,
              probed |-> FALSE]

\* Variant: the warning is issued whenever builtin is the result.
WarnsAnyBuiltin(name, result) == result = "builtin"

\* bcrypt.set_backend: builtin chosen by default, not asked for by name
WarnsBuiltin(name, result) == name # "builtin" /\ result = "builtin"

ImportBcrypt ==
    /\ ~env.loaded
    /\ \E py \in BOOLEAN, oc \in {"none", "2a-only", "bcrypt"} :
        env' = [loaded |-> TRUE, pybcrypt_hashpw |-> py, os_crypt |-> oc]
    /\ UNCHANGED <<op, arg, res, _backend, warned, passes, thr>>

\* a thread calls bcrypt.set_backend(name); no name asks for the default.
\* first tells whether no backend was selected yet when the call was made.
\* The threads make MaxCalls calls in all.
SetBackendCall ==
    /\ env.loaded
    /\ \E t \in 1..NumThreads,
          name \in {NoScheme, "pybcrypt", "os_crypt", "builtin"} :
        /\ thr[t].pc = "idle"
        /\ Cardinality({c \in (1..NumThreads) \X (1..MaxCalls) :
                            c[2] <= thr[c[1]].calls}) < MaxCalls
        /\ thr' = [thr EXCEPT ![t] = [pc |-> "super", name |-> name,
                                      result |-> Ret(NoScheme),
                                      calls |-> @.calls + 1,
                                      first |-> _backend = NoScheme]]
    /\ UNCHANGED <<op, arg, res, env, _backend, warned, passes>>

\* result = super(bcrypt, cls).set_backend(name)
SetBackendSuper ==
    /\ \E t \in 1..NumThreads :
        /\ thr[t].pc = "super"
        /\ LET r == BackendExtHash_set_backend(env, _backend, thr[t].name)
           IN  /\ _backend' = r.cache
               /\ passes' = IF r.probed THEN passes + 1 ELSE passes
               /\ thr' = [thr EXCEPT ![t].pc = IF r.result.kind = "ret"
                                               THEN "warn" ELSE "idle",
                                     ![t].result = r.result]
    /\ UNCHANGED <<op, arg, res, env, warned>>

\* if name != "builtin" and result == "builtin": warn(...); return result
SetBackendWarn ==
    /\ \E t \in 1..NumThreads :
        /\ thr[t].pc = "warn"
        /\ warned' = IF WarnsBuiltin(thr[t].name, thr[t].result.val)
                     THEN warned + 1 ELSE warned
        /\ thr' = [thr EXCEPT ![t].pc = "idle"]
    /\ UNCHANGED <<op, arg, res, env, _backend, passes>>

BackendNext ==
    \/ ImportBcrypt
    \/ SetBackendCall
    \/ SetBackendSuper
    \/ SetBackendWarn

BackendSpec == Init /\ [][BackendNext]_vars

(***************************************************************************)
(* Properties of the context.                                              *)
(***************************************************************************)
\* the registration indexes of the handlers of ctx whose identify accepts hash
Hits(ctx, hash) ==
    {i \in 1..Len(ctx) : HandlerIdentify(ctx[i], hash) = Ret(TRUE)}

\* C1: Context.identify(text) returns the name of the earliest-registered
\* handler whose own identify(text) is true, and None when no registered
\* handler's identify is true.
C1_IdentifyFirstRegistered ==
    op = "Context.identify" =>
        LET hits == Hits(arg.ctx, arg.hash)
        IN  /\ res.kind = "ret"
            /\ hits = {} => res.val = NoScheme
            /\ hits # {} =>
                   \E i \in hits : /\ res.val = arg.ctx[i]
                                   /\ \A j \in hits : i <= j

\* Several handlers match the text, and the earliest-registered one is named.
C1_Witness ==
    /\ op = "Context.identify"
    /\ Cardinality(Hits(arg.ctx, arg.hash)) >= 2
    /\ res.kind = "ret"
    /\ res.val = arg.ctx[1]

\* C2: Context.encrypt chooses its handler by strict priority: the handler
\* named alg when alg is given (whatever prior hash comes with it); else the
\* handler Context.identify resolves for the prior hash, failing with
\* UnsupportedSchemeError when the prior hash is unidentifiable; else, with
\* neither given, the default handler.
C2_EncryptHandlerPriority ==
    op = "Context.encrypt" =>
        LET hits == Hits(arg.ctx, arg.hash)
        IN  /\ (arg.alg # NoScheme /\ InCtx(arg.ctx, arg.alg)) =>
                   res.kind = "ret" /\ res.val.handler = arg.alg
            /\ (arg.alg = NoScheme /\ ~IsNone(arg.hash) /\ hits = {}) =>
                   res = Raise("UnsupportedSchemeError")
            /\ (arg.alg = NoScheme /\ ~IsNone(arg.hash) /\ hits # {}) =>
                   /\ res.kind = "ret"
                   /\ res.val.handler = CtxIdentify(arg.ctx, arg.hash).val
            /\ (arg.alg = NoScheme /\ IsNone(arg.hash)) =>
                   res.kind = "ret" /\ res.val.handler = DefaultScheme(arg.ctx)

\* alg is given together with a prior hash of another registered scheme, and
\* the handler named alg is used.
C2_Witness ==
    /\ op = "Context.encrypt"
    /\ arg.alg # NoScheme
    /\ ~IsNone(arg.hash)
    /\ Hits(arg.ctx, arg.hash) # {}
    /\ CtxIdentify(arg.ctx, arg.hash).val # arg.alg
    /\ res.kind = "ret"
    /\ res.val.handler = arg.alg

C4_VerifyUnidentifiedFails ==
    (/\ op = "Context.verify"
     /\ arg.alg = NoScheme
     /\ Hits(arg.ctx, arg.hash) = {}) =>
        res = Raise("UnsupportedSchemeError")

\* A non-empty hash that no handler of the context identifies is verified.
C4_Witness ==
    /\ op = "Context.verify"
    /\ arg.alg = NoScheme
    /\ Len(arg.hash.v) > 0
    /\ Hits(arg.ctx, arg.hash) = {}
    /\ res.kind = "raise"

(***************************************************************************)
(* Properties of the handlers.                                             *)
(***************************************************************************)
\* C5: for every handler, secret and valid option set, verify accepts the
\* secret against h = encrypt(secret, options) and rejects secret + "x".
C5_EncryptThenVerify ==
    op = "verify(encrypt)" =>
        /\ arg.probe = arg.secret => res = Ret(TRUE)
        /\ arg.probe = arg.secret \o <<"x">> => res = Ret(FALSE)

\* A mixed-case secret is verified against its own mssql2000 hash, whose
\* stored digests are the mixed-case one and the upper-case one.
C5_Witness ==
    /\ op = "verify(encrypt)"
    /\ arg.handler = "mssql2000"
    /\ arg.secret = <<"p", "W">>
    /\ arg.probe = arg.secret
    /\ res = Ret(TRUE)

\* C6: from_string(to_string(r)) succeeds for every record r the handler can
\* produce, full hash or config, and yields the ident, salt, rounds and
\* checksum of r.
C6_RoundTrip ==
    /\ op = "to_string" => res.kind = "ret"
    /\ op = "from_string(to_string)" =>
        /\ res.kind = "ret"
        /\ res.val.ident = arg.self.ident
        /\ res.val.salt = arg.self.salt
        /\ res.val.rounds = arg.self.rounds
        /\ res.val.checksum = arg.self.checksum

\* C7: one rounds value has one accepted encoding: when from_string accepts
\* a hash, it accepts no hash that differs from it in the text of the rounds
\* field alone and carries the same rounds value.
C7_OneEncodingPerRounds ==
    (op = "from_string" /\ res.kind = "ret") =>
        \A other \in RoundsTexts(arg.handler) \ {arg.rounds} :
            LET r2 == HandlerFromString(arg.handler,
                          MakeHash(arg.handler, other, arg.salt, arg.chk))
            IN  ~(r2.kind = "ret" /\ r2.val.rounds = res.val.rounds)

\* C8: verify(secret, text) on what genconfig returned never answers true or
\* false: it raises, and MissingDigestError when the settings are a string.
C8_VerifyConfigFails ==
    op = "verify(genconfig)" =>
        /\ res.kind = "raise"
        /\ IsString(arg.hash) => res.exc = "MissingDigestError"

\* C9: a hash string that contains a checksum is parsed in strict mode: the
\* record keeps the rounds and the salt the text holds, both within the
\* handler's bounds, out-of-bounds rounds or salt make the parse fail, and a
\* strict parse never returns a record without a checksum.
C9_ChecksumMeansStrict ==
    op = "from_string" =>
        LET cls == Class(arg.handler)
            n == PyInt_parse(arg.rounds,
                             IF arg.handler = "dlitz_pbkdf2_sha1" THEN 16 ELSE 10)
            len == CASE arg.handler = "pbkdf2_sha1" -> (Len(arg.salt) * 3) \div 4
                     [] arg.handler = "grub_pbkdf2_sha512" -> Len(arg.salt) \div 2
                     [] OTHER -> Len(arg.salt)
            outside == \/ /\ n.kind = "ret"
                          /\ \/ BigLess(n.val, cls.min_rounds)
                             \/ BigLess(cls.max_rounds, n.val)
                       \/ len < cls.min_salt_chars
                       \/ len > cls.max_salt_chars
        IN  /\ (arg.chk # <<>> /\ res.kind = "ret") =>
                /\ res.val.strict
                /\ ~res.val.corrected
                /\ ~BigLess(res.val.rounds, cls.min_rounds)
                /\ ~BigLess(cls.max_rounds, res.val.rounds)
                /\ n.kind = "ret" => res.val.rounds = n.val
                /\ Len(res.val.salt) = len
            /\ (arg.chk # <<>> /\ outside) => res.kind = "raise"
            /\ (res.kind = "ret" /\ res.val.strict) => res.val.checksum.some

\* A bcrypt hash with a checksum and rounds above max_rounds is refused.
C9_Witness ==
    /\ op = "from_string"
    /\ arg.handler = "bcrypt"
    /\ arg.chk # <<>>
    /\ arg.rounds = <<"9", "9">>
    /\ Len(arg.salt) = 22
    /\ res = Raise("InvalidSettingError")

\* C10: identify returns a boolean, and never raises, for every handler and
\* every value: any string, the empty string, None, a non-string.
C10_IdentifyTotal ==
    op = "Handler.identify" => (res.kind = "ret" /\ res.val \in BOOLEAN)

\* C15: in strict mode, settings with rounds below min_rounds or above
\* max_rounds, or with a salt shorter than min_salt or longer than max_salt,
\* fail with InvalidSettingError and yield no record: for bcrypt rounds
\* outside 4..31 or a salt that is not 22 characters, for pbkdf2 rounds
\* outside 1..2**32-1 or a salt longer than 1024 bytes.
C15_StrictBoundsFail ==
    (op = "construct" /\ arg.strict) =>
        LET cls == Class(arg.handler)
            r == arg.rounds
            len == Len(arg.salt)
            outside ==
                \/ /\ cls.has_rounds
                   /\ BigLess(r, cls.min_rounds) \/ BigLess(cls.max_rounds, r)
                \/ len < cls.min_salt_chars
                \/ len > cls.max_salt_chars
                \/ /\ arg.handler = "bcrypt"
                   /\ r.neg \/ r.hi > 0 \/ r.lo < 4 \/ r.lo > 31 \/ len # 22
                \/ /\ arg.handler = "pbkdf2_sha1"
                   /\ \/ r.neg
                      \/ r.hi = 0 /\ r.lo = 0
                      \/ r.hi > 65535
                      \/ len > 1024
        IN  /\ outside => res = Raise("InvalidSettingError")
            /\ res.kind = "ret" =>
                   /\ res.val.rounds = r
                   /\ res.val.salt = arg.salt

\* pbkdf2_sha1 settings with 2**32 rounds are refused in strict mode.
C15_Witness ==
    /\ op = "construct"
    /\ arg.handler = "pbkdf2_sha1"
    /\ arg.strict
    /\ arg.rounds = [neg |-> FALSE, hi |-> 65536, lo |-> 0]
    /\ Len(arg.salt) = 16
    /\ res = Raise("InvalidSettingError")

C17_UpperCaseNormalForm ==
    (/\ op = "normalise"
     /\ Len(arg.hash.v) = 54
     /\ StartsWith(arg.hash.v, UIDENT)
     /\ \A i \in 7..54 : DigitValue(arg.hash.v[i], 16) >= 0)
        => /\ res = Ret(UIDENT \o Upper(Drop(arg.hash.v, 6)))
           /\ arg.again => res.val = arg.hash.v

C17_Witness ==
    /\ op = "normalise"
    /\ arg.again
    /\ res = Ret(arg.hash.v)
    /\ res.val = UIDENT \o <<"0", "1", "0", "2", "A", "B", "F", "F">>
                        \o Rep("F", 40)

\* C18 as stated: postgres_md5 encrypt, genhash and verify fail without a
\* user; with a user, encrypt and genhash return "md5" + the 32 lower-case hex
\* digits of md5(secret + user) whatever the config holds.
C18_ConfigNeverMatters ==
    (op \in {"encrypt", "genhash", "verify"} /\ arg.handler = "postgres_md5")
        => /\ ~Truthy(arg.user) => res.kind = "raise"
           /\ (Truthy(arg.user) /\ op # "verify") =>
                res = Ret(PyStr(<<"m", "d", "5">> \o
                          Hexlify(md5(Utf8(arg.secret) \o Utf8(arg.user.v)))))

\* C18, amended: postgres_md5 encrypt, genhash and verify fail without a
\* user; with a user, encrypt returns "md5" + the 32 lower-case hex digits of
\* md5(secret + user), and so does genhash for every config that is empty or
\* a well-formed postgres-md5 hash; genhash of any other config fails.
C18_UserRequired ==
    (op \in {"encrypt", "genhash", "verify"} /\ arg.handler = "postgres_md5")
        => /\ ~Truthy(arg.user) => res.kind = "raise"
           /\ (Truthy(arg.user) /\ op # "verify") =>
                IF op = "genhash" /\ Truthy(arg.config)
                                 /\ ~postgres_md5_pat(arg.config.v)
                THEN res = Raise("ValueError")
                ELSE res = Ret(PyStr(<<"m", "d", "5">> \o
                           Hexlify(md5(Utf8(arg.secret) \o Utf8(arg.user.v)))))

C18_Witness ==
    /\ op = "genhash"
    /\ arg.handler = "postgres_md5"
    /\ arg.user = PyStr(<<"p", "g">>)
    /\ arg.config = PyStr(<<"m", "d", "5">> \o Rep("a", 32))
    /\ arg.secret = <<"p", "W">>
    /\ res.kind = "ret"
    /\ Len(res.val.v) = 35

\* C19: whenever verify answers true or false, the answer is that of consteq
\* applied to the recomputed and the stored checksum, which examines every
\* position of operands of equal length, never that of an equality test that
\* stops at the first difference.
C19_VerifyUsesConsteq ==
    (op \in {"verify(encrypt)", "verify"} /\ res.kind = "ret") =>
        LET c == VerifyComparison(arg.handler,
                                  IF op = "verify" THEN arg.secret ELSE arg.probe,
                                  arg.hash, arg.user)
        IN  /\ res.val = (c.left = c.right)
            /\ c.by = "consteq"
            /\ Len(c.left) = Len(c.right) => c.examined = Len(c.left)

C22_UpperHalfOnly ==
    op = "mssql2000.verify" =>
        /\ res = Ret(sha1(Utf16le(Upper(arg.probe)) \o arg.salt)
                         = SubSeq(arg.chk, 21, 40))
        /\ \A other \in Secrets :
                Upper(other) = Upper(arg.probe)
                    => mssql2000_verify(other, PyStr(arg.hash), FALSE) = res

C22_Witness ==
    /\ op = "mssql2000.verify"
    /\ arg.secret = <<"p", "W">>
    /\ arg.probe = <<"P", "W">>
    /\ SubSeq(arg.chk, 1, 20) = Rep(0, 20)
    /\ res = Ret(TRUE)

\* C23: from_string rejects a hash of the right size and prefix whose salt or
\* checksum text holds a character that is no hex digit, for mssql2005 and
\* grub_pbkdf2_sha512, and the error is InvalidHashError or a ValueError
\* (binascii.Error is one on Python 3), no other kind.
C23_MalformedIsTyped ==
    /\ (/\ op = "normalise"
        /\ Len(arg.hash.v) = 54
        /\ StartsWith(arg.hash.v, UIDENT)
        /\ \E i \in 7..54 : DigitValue(arg.hash.v[i], 16) < 0)
            => /\ res.kind = "raise"
               /\ res.exc \in {"InvalidHashError", "ValueError", "binascii.Error"}
    /\ (/\ op = "from_string"
        /\ arg.handler = "grub_pbkdf2_sha512"
        /\ \E i \in 1..Len(arg.salt) : DigitValue(arg.salt[i], 16) < 0)
            => /\ res.kind = "raise"
               /\ res.exc \in {"InvalidHashError", "ValueError", "binascii.Error"}

\* C26: dlitz_pbkdf2_sha1 holds no record with rounds = 0, from the
\* constructor or from from_string, and from_string accepts what to_string
\* returns for every record the constructor accepted.
C26_DlitzRoundsFromOne ==
    /\ (/\ op \in {"construct", "from_string", "from_string(to_string)"}
        /\ arg.handler = "dlitz_pbkdf2_sha1"
        /\ res.kind = "ret")
            => ~BigLess(res.val.rounds, Big(1))
    /\ (op = "from_string(to_string)" /\ arg.handler = "dlitz_pbkdf2_sha1")
            => res.kind = "ret"

\* C27, amended: whatever text from_string accepts (bcrypt, mssql2000,
\* mssql2005), and whatever non-empty config postgres_md5.genhash accepts,
\* identify of the same handler accepts.
C27_ParsedIsIdentified ==
    /\ (op = "from_string" /\ arg.handler = "bcrypt" /\ res.kind = "ret")
            => HandlerIdentify("bcrypt",
                   PyStr(MakeHash("bcrypt", arg.rounds, arg.salt, arg.chk)))
               = Ret(TRUE)
    /\ (/\ op = "from_string(to_string)"
        /\ arg.handler \in {"bcrypt", "mssql2000", "mssql2005"}
        /\ res.kind = "ret")
            => HandlerIdentify(arg.handler, PyStr(arg.hash)) = Ret(TRUE)
    /\ (op = "normalise" /\ res.kind = "ret")
            => HandlerIdentify("mssql2005", arg.hash) = Ret(TRUE)
    /\ (op = "mssql2000.verify" /\ res.kind = "ret")
            => HandlerIdentify("mssql2000", PyStr(arg.hash)) = Ret(TRUE)
    /\ (/\ op = "genhash"
        /\ arg.handler = "postgres_md5"
        /\ res.kind = "ret"
        /\ Truthy(arg.config))
            => HandlerIdentify("postgres_md5", arg.config) = Ret(TRUE)

\* C27 as stated: the same, for every string postgres_md5.genhash accepts as
\* a config, the empty one included.
C27_AcceptedIsIdentified ==
    /\ C27_ParsedIsIdentified
    /\ (/\ op = "genhash"
        /\ arg.handler = "postgres_md5"
        /\ res.kind = "ret"
        /\ IsString(arg.config))
            => HandlerIdentify("postgres_md5", arg.config) = Ret(TRUE)

C27_Witness ==
    /\ op = "normalise"
    /\ arg.hash.t = "bytes"
    /\ ~arg.again
    /\ res.kind = "ret"
    /\ HandlerIdentify("mssql2005", arg.hash) = Ret(TRUE)

(***************************************************************************)
(* Properties of the backend selection.                                    *)
(***************************************************************************)
\* C11 as stated: default selection picks the first backend in the order
\* pybcrypt, os_crypt, builtin whose probe succeeds, and once a backend is
\* selected the selection never changes for the rest of the process.
C11_SelectionNeverChanges ==
    [][/\ \A t \in 1..NumThreads :
            (thr[t].pc = "super" /\ thr'[t].pc = "warn"
             /\ thr[t].name = NoScheme /\ _backend = NoScheme) =>
                thr'[t].result.val =
                    IF env.pybcrypt_hashpw THEN "pybcrypt"
                    ELSE IF env.os_crypt = "bcrypt" THEN "os_crypt"
                    ELSE "builtin"
       /\ _backend # NoScheme => _backend' = _backend]_vars

\* C11: default selection picks the first backend in the order pybcrypt,
\* os_crypt, builtin whose probe succeeds; every later default use returns
\* the selection in force; and the selection changes only when a caller
\* forces another available backend by name.
C11_FirstAvailableKept ==
    [][/\ \A t \in 1..NumThreads :
            (thr[t].pc = "super" /\ thr'[t].pc # "super"
             /\ thr[t].name = NoScheme) =>
                /\ thr'[t].result =
                       Ret(IF _backend # NoScheme THEN _backend
                           ELSE IF env.pybcrypt_hashpw THEN "pybcrypt"
                           ELSE IF env.os_crypt = "bcrypt" THEN "os_crypt"
                           ELSE "builtin")
                /\ _backend' = thr'[t].result.val
       /\ (_backend # NoScheme /\ _backend' # _backend) =>
            \E t \in 1..NumThreads :
                /\ thr[t].pc = "super"
                /\ thr'[t].pc = "warn"
                /\ thr[t].name = _backend']_vars

\* Without py-bcrypt, os_crypt was selected by one probing pass, and every
\* thread's default call returned it.
C11_Witness ==
    /\ ~env.pybcrypt_hashpw
    /\ _backend = "os_crypt"
    /\ passes = 1
    /\ \A t \in 1..NumThreads :
        /\ thr[t].pc = "idle"
        /\ thr[t].calls > 0
        /\ thr[t].name = NoScheme
        /\ thr[t].result = Ret("os_crypt")

\* C12: the warning is issued when a default call selects the builtin
\* backend, the call still returns the selected name, and no warning is
\* issued when another backend is selected or builtin is asked for by name.
C12_WarnOnDefaultBuiltin ==
    [][/\ \A t \in 1..NumThreads :
            (thr[t].pc = "warn" /\ thr'[t].pc = "idle") =>
                /\ thr'[t].result = thr[t].result
                /\ thr[t].result.kind = "ret"
                /\ (thr[t].name = NoScheme /\ thr[t].result.val = "builtin")
                       => warned' = warned + 1
                /\ (thr[t].result.val # "builtin" \/ thr[t].name = "builtin")
                       => warned' = warned
       /\ warned' # warned =>
            \E t \in 1..NumThreads : thr[t].pc = "warn" /\ thr'[t].pc = "idle"]_vars

\* One thread got builtin by default and was warned once; another asked for
\* builtin by name and was not.
C12_Witness ==
    /\ warned = 1
    /\ \E t1, t2 \in 1..NumThreads :
        /\ thr[t1].pc = "idle" /\ thr[t1].calls = 1
        /\ thr[t1].name = NoScheme /\ thr[t1].result = Ret("builtin")
        /\ thr[t2].pc = "idle" /\ thr[t2].calls = 1
        /\ thr[t2].name = "builtin" /\ thr[t2].result = Ret("builtin")

\* C13: set_backend(name) selects exactly the named backend when it is
\* available, without a probing pass; when it is not available the call
\* fails with BackendUnavailableError and the selection stays as it was.
C13_ForcedBackend ==
    [][\A t \in 1..NumThreads :
          (thr[t].pc = "super" /\ thr'[t].pc # "super"
           /\ thr[t].name # NoScheme) =>
              LET available ==
                      \/ thr[t].name = "pybcrypt" /\ env.pybcrypt_hashpw
                      \/ thr[t].name = "os_crypt" /\ env.os_crypt = "bcrypt"
                      \/ thr[t].name = "builtin"
              IN  /\ passes' = passes
                  /\ available => /\ thr'[t].result = Ret(thr[t].name)
                                  /\ _backend' = thr[t].name
                  /\ ~available =>
                         /\ thr'[t].result = Raise("BackendUnavailableError")
                         /\ _backend' = _backend]_vars

\* os_crypt fails the known-answer test; forcing it failed and left the
\* selection made before, pybcrypt.
C13_Witness ==
    /\ env.os_crypt = "2a-only"
    /\ _backend = "pybcrypt"
    /\ \E t \in 1..NumThreads :
        /\ thr[t].pc = "idle"
        /\ thr[t].name = "os_crypt"
        /\ thr[t].calls > 0
        /\ thr[t].result = Raise("BackendUnavailableError")

\* C14: when the threads make their first default use before a backend is
\* selected, one probing pass is run, the warning is issued at most once,
\* and the threads that have returned hold the same selection.
C14_OneShotFirstUse ==
    (\A t \in 1..NumThreads :
        thr[t].calls <= 1 /\ thr[t].name = NoScheme /\ thr[t].first) =>
        /\ passes <= 1
        /\ warned <= 1
        /\ \A t1, t2 \in 1..NumThreads :
            (thr[t1].calls = 1 /\ thr[t1].pc = "idle"
             /\ thr[t2].calls = 1 /\ thr[t2].pc = "idle") =>
                thr[t1].result = thr[t2].result

====
